---- MODULE Spec2Model ----
(***************************************************************************)
(* A state-machine model of the Experity portal automation:                *)
(*   utils/automation/experity/experity_base.py   (ExperityBase)           *)
(*   utils/automation/experity/experity_reports.py (ExperityReports)       *)
(*   utils/automation/core/browser_manager.py      (BrowserManager)        *)
(*   main.py                                       (the main driver)       *)
(*   utils/auth/otp.py                             (TOTPProvider)          *)
(*   utils/report_dates.py                         (get_months_between)    *)
(*   utils/sqlite_manager.py                       (SQLiteManager)         *)
(*                                                                         *)
(* Python values: a str is a sequence of one-character strings, a list is  *)
(* a sequence; an Optional[str] field is Nothing (<<>>) or Some(s) (<<s>>);*)
(* the other optional fields hold the string "None" when unset.            *)
(*                                                                         *)
(* The browser and the remote portal are the environment.  Every Playwright*)
(* call that can raise is a fault site; an operation receives the set F of *)
(* the fault sites that fail while it runs.                                *)
(***************************************************************************)
EXTENDS Integers, Sequences, FiniteSets, TLC

VARIABLES
    experity,   \* the ExperityBase instance (its fields)
    manager,    \* the BrowserManager instance (its fields)
    portal,     \* the environment: browser, documents, remote portal
    log,        \* the portal interactions issued by the call in progress / just returned
    last,       \* the call just returned: operation, arguments, outcome
    pc,         \* position of the driver
    loop,       \* the frame of a facade call that is iterating, or NoLoop
    totp,       \* Some(the TOTPProvider instance: its fields), or Nothing
    clock,      \* time.time(), in whole seconds
    sqlite,     \* Some(the SQLiteManager: its locks and the threads calling it), or Nothing
    ret         \* Some(the value the utility call just returned), or Nothing

\* the state of utils/auth/otp.py, utils/report_dates.py and utils/sqlite_manager.py
utils == <<totp, clock, sqlite, ret>>
vars == <<experity, manager, portal, log, last, pc, loop, utils>>

----------------------------------------------------------------------------
(* Python values *)

None == "None"
Nothing == << >>
Some(x) == << x >>

PyStr(s) == [type |-> "str", items |-> s]
PyList(l) == [type |-> "list", items |-> l]

\* for x in v: a list yields its elements, a str its one-character strings
Iterate(v) ==
    IF v.type = "list" THEN v.items
    ELSE [i \in 1..Len(v.items) |-> << v.items[i] >>]

\* bool(v) of a str
Truthy(s) == Len(s) > 0

----------------------------------------------------------------------------
(* Strings, dates and month labels *)

\* str.replace(old, new) for one-character old and new
Replace(s, old, new) == [i \in 1..Len(s) |-> IF s[i] = old THEN new ELSE s[i]]

Digit == <<"0", "1", "2", "3", "4", "5", "6", "7", "8", "9">>
DigitVal(c) == CHOOSE d \in 0..9 : Digit[d + 1] = c

\* "%Y" of a four-digit year, "%m" / "%d" zero-padded
Year4(y) == << Digit[((y \div 1000) % 10) + 1], Digit[((y \div 100) % 10) + 1],
               Digit[((y \div 10) % 10) + 1], Digit[(y % 10) + 1] >>
Two(n) == << Digit[((n \div 10) % 10) + 1], Digit[(n % 10) + 1] >>

\* "%B"
MonthName ==
    << <<"J","a","n","u","a","r","y">>, <<"F","e","b","r","u","a","r","y">>,
       <<"M","a","r","c","h">>, <<"A","p","r","i","l">>, <<"M","a","y">>,
       <<"J","u","n","e">>, <<"J","u","l","y">>, <<"A","u","g","u","s","t">>,
       <<"S","e","p","t","e","m","b","e","r">>, <<"O","c","t","o","b","e","r">>,
       <<"N","o","v","e","m","b","e","r">>, <<"D","e","c","e","m","b","e","r">> >>

\* datetime.strftime("%B %Y")
MonthLabel(y, m) == MonthName[m] \o <<" ">> \o Year4(y)

\* the "mm/dd/yyyy" text of a date
DateText(y, m, d) == Two(m) \o <<"/">> \o Two(d) \o <<"/">> \o Year4(y)

\* datetime.strptime(s, "%m/%d/%Y") of a well-formed text, as <<year, month, day>>
strptime(s) ==
    << DigitVal(s[7]) * 1000 + DigitVal(s[8]) * 100 + DigitVal(s[9]) * 10 + DigitVal(s[10]),
       DigitVal(s[1]) * 10 + DigitVal(s[2]),
       DigitVal(s[4]) * 10 + DigitVal(s[5]) >>

\* datetime comparison a < b
DateLt(a, b) ==
    \/ a[1] < b[1]
    \/ a[1] = b[1] /\ a[2] < b[2]
    \/ a[1] = b[1] /\ a[2] = b[2] /\ a[3] < b[3]

\* datetime comparison a <= b
DateLeq(a, b) ==
    \/ a[1] < b[1]
    \/ a[1] = b[1] /\ a[2] < b[2]
    \/ a[1] = b[1] /\ a[2] = b[2] /\ a[3] <= b[3]

RECURSIVE MonthsLoop(_, _, _)
\* get_months_between: the while loop
MonthsLoop(current, end_date, months) ==
    IF ~DateLeq(current, end_date) THEN months
    ELSE MonthsLoop(
           IF current[2] = 12 THEN << current[1] + 1, 1, current[3] >>
           ELSE << current[1], current[2] + 1, current[3] >>,
           end_date,
           Append(months, MonthLabel(current[1], current[2])))

\* get_months_between without the swap of its dates
get_months_between_as_given(start_date_str, end_date_str) ==
    LET start_date == strptime(start_date_str)
    IN  MonthsLoop(<< start_date[1], start_date[2], 1 >>, strptime(end_date_str), << >>)

\* get_months_between
get_months_between(start_date_str, end_date_str) ==
    LET a == strptime(start_date_str)
        b == strptime(end_date_str)
        start_date == IF ~DateLeq(a, b) THEN b ELSE a
        end_date == IF ~DateLeq(a, b) THEN a ELSE b
    IN  MonthsLoop(<< start_date[1], start_date[2], 1 >>, end_date, << >>)

\* main.py: FROM_DATE, TO_DATE
FROM_DATE == <<"0","5","/","0","1","/","2","0","2","2">>
TO_DATE == <<"0","2","/","2","4","/","2","0","2","6">>

\* The closing months the portal's report form offers
MonthOptions == { MonthLabel(y, m) : y \in 2022..2026, m \in 1..12 }

----------------------------------------------------------------------------
(* The world a call runs in, and exception plumbing *)

World == [experity |-> experity, manager |-> manager, portal |-> portal,
          log |-> << >>, exc |-> "none", ret |-> None]

Ok(w) == w.exc = "none"
Emit(w, op, arg) == [w EXCEPT !.log = Append(@, [op |-> op, arg |-> arg])]
\* an underlying call fails: the exception leaves the statement
Raise(w, e) == [Emit(w, "raise", <<e>>) EXCEPT !.exc = e]
\* v is computed once and handed to Op
Bind(v, Op(_)) == CHOOSE r \in { Op(x) : x \in {v} } : TRUE
\* sequencing: the next statement runs only if nothing was raised
Then(w, Op(_)) == Bind(w, LAMBDA x : IF Ok(x) THEN Op(x) ELSE x)
\* an except clause that lets the exception through
Unhandled(w) == w

\* try: ... except Exception as e: logger.error(...)   (nothing re-raised)
Swallow(w) ==
    Bind(w, LAMBDA x : IF Ok(x) THEN x
                       ELSE [Emit(x, "error_logged", <<x.exc>>) EXCEPT !.exc = "none"])
\* try: ... except Exception as e: logger.error(...); raise
Reraise(w) ==
    Bind(w, LAMBDA x : IF Ok(x) THEN x ELSE Emit(x, "error_logged", <<x.exc>>))

----------------------------------------------------------------------------
(* ExperityBase *)

\* ExperityBase.__init__
ExperityInit ==
    [base_url |-> None, download_dir |-> None, screenshot_dir |-> None,
     main_frame |-> None, nav_frame |-> None, report_frame |-> None,
     current_page |-> None,
     current_report_search |-> Nothing, current_report_select |-> Nothing]

\* The environment before BrowserManager.launch(): no browser, no page.
PortalInit ==
    [res |-> [driver |-> "none", browser |-> "none", context |-> "none"],
     url |-> "closed",          \* location of the primary page ("closed": no page)
     authenticated |-> FALSE,   \* the portal session
     attached |-> {},           \* frame handles resolved in the current document
     searched |-> Nothing,      \* the search the report page currently shows
     selected |-> Nothing,      \* the report the report page currently has open
     params |-> Nothing,        \* the parameters set in the report form
     popups |-> {}]             \* the open secondary viewports

\* The primary page loads a new document: frames of the old one detach and
\* the report page's forms start empty.
LoadDocument(p, url) ==
    [p EXCEPT !.url = url, !.attached = {}, !.searched = Nothing,
              !.selected = Nothing, !.params = Nothing]

\* open_portal
open_portal(w, F) ==
    LET w1 == [w EXCEPT !.experity.download_dir = "set",
                        !.experity.screenshot_dir = "set"]
    IN  IF "makedirs" \in F THEN Raise(w1, "OSError")
        ELSE IF w.portal.url = "closed" \/ "goto" \in F
            THEN Raise(Emit(w1, "goto", <<"login">>), "Error")
        ELSE LET w2 == Emit(w1, "goto", <<"login">>)
             IN  [w2 EXCEPT !.portal = LoadDocument([@ EXCEPT !.authenticated = FALSE], "loginpage.aspx"),
                            !.experity.base_url = "base"]

\* navigate_page: pages
pages == [report |-> "Reports.aspx", clinic |-> "ClinicInfo.aspx"]

\* _get_frames that requires all three frames
get_frames_strict(w, F) ==
    IF w.portal.url # "Reports.aspx" \/ "no_main_frame" \in F
    THEN Raise([w EXCEPT !.experity.main_frame = None], "ValueError")
    ELSE LET w1 == [w EXCEPT !.experity.main_frame = "Frame", !.portal.attached = {"main"}]
         IN  IF "no_nav_frame" \in F \/ "no_report_frame" \in F
             THEN Raise(w1, "ValueError")
             ELSE [w1 EXCEPT !.experity.nav_frame = "Frame",
                             !.experity.report_frame = "Frame",
                             !.portal.attached = {"main", "nav", "report"}]

\* _get_frames: page.frame(name=...) is None when the document has no such frame
get_frames(w, F) ==
    IF w.portal.url # "Reports.aspx" \/ "no_main_frame" \in F
    THEN Raise([w EXCEPT !.experity.main_frame = None], "ValueError")
    ELSE [w EXCEPT
            !.experity.main_frame = "Frame",
            !.experity.nav_frame = IF "no_nav_frame" \in F THEN None ELSE "Frame",
            !.experity.report_frame = IF "no_report_frame" \in F THEN None ELSE "Frame",
            !.portal.attached = {"main"}
                \cup (IF "no_nav_frame" \in F THEN {} ELSE {"nav"})
                \cup (IF "no_report_frame" \in F THEN {} ELSE {"report"})]

\* navigate_page without the early return
NeverSkip(w, target) == FALSE

\* navigate_page: "if self.current_page == target: return"
NavigateSkip(w, target) == w.experity.current_page = target

\* Where goto(base_url + target) lands: the portal serves its pages to an
\* authenticated session only.
GotoLands(w, target) ==
    IF w.portal.authenticated THEN target ELSE "loginpage.aspx"

\* navigate_page that rejects an unknown page name only after the goto
navigate_page_late_lookup(w, page_name, F) ==
    LET w1 == [Emit(w, "goto", <<page_name>>) EXCEPT
                 !.portal = LoadDocument(@, GotoLands(w, page_name)),
                 !.experity.current_page = page_name]
    IN  IF page_name \notin DOMAIN pages THEN Raise(w1, "ValueError")
        ELSE get_frames(w1, F)

\* navigate_page
navigate_page(w, page_name, F) ==
    IF page_name \notin DOMAIN pages THEN Raise(w, "ValueError")
    ELSE LET target == pages[page_name] IN
      IF NavigateSkip(w, target) THEN w
      ELSE IF w.experity.base_url = None \/ w.portal.url = "closed" \/ "goto" \in F
        THEN Raise(Emit(w, "goto", <<target>>), "Error")
      ELSE LET w1 == [Emit(w, "goto", <<target>>) EXCEPT
                         !.portal = LoadDocument(@, GotoLands(w, target))]
        IN IF "wait_idle" \in F THEN Raise(w1, "TimeoutError")
           ELSE LET w2 == [w1 EXCEPT !.experity.current_page = target]
                IN  IF page_name = "report" THEN get_frames(w2, F) ELSE w2

\* a skip test that only asks whether some search was made before
SkipAfterAnySearch(w, report_name) == w.experity.current_report_search # Nothing

\* search_report: "if self.current_report_search == report_name: return"
SearchSkip(w, report_name) == w.experity.current_report_search = Some(report_name)

\* A locator call on a frame handle: the handle is None (AttributeError), or
\* its frame is detached or the call times out.
FrameUsable(w, field, name) == w.experity[field] # None /\ name \in w.portal.attached

\* a search_report that records the name before it fills the search box
search_report_records_first(w, report_name, F) ==
    IF SearchSkip(w, report_name) THEN w
    ELSE LET w1 == [w EXCEPT !.experity.current_report_search = Some(report_name)] IN
         IF w.experity.nav_frame = None THEN Raise(w1, "AttributeError")
         ELSE IF ~FrameUsable(w, "nav_frame", "nav") \/ "search" \in F
             THEN Raise(Emit(w1, "search", <<report_name, FALSE>>), "Error")
         ELSE [Emit(w1, "search", <<report_name, TRUE>>) EXCEPT
                 !.portal.searched = Some(report_name),
                 !.portal.selected = Nothing,
                 !.portal.params = Nothing]

\* search_report
search_report(w, report_name, F) ==
    IF SearchSkip(w, report_name) THEN w
    ELSE IF w.experity.nav_frame = None THEN Raise(w, "AttributeError")
    ELSE IF ~FrameUsable(w, "nav_frame", "nav") \/ "search" \in F
        THEN Raise(Emit(w, "search", <<report_name, FALSE>>), "Error")
    ELSE [Emit(w, "search", <<report_name, TRUE>>) EXCEPT
            !.portal.searched = Some(report_name),
            !.portal.selected = Nothing,
            !.portal.params = Nothing,
            !.experity.current_report_search = Some(report_name)]

\* select_report: "if self.current_report_select == report_title: return"
SelectSkip(w, report_title) == w.experity.current_report_select = Some(report_title)

\* select_report
select_report(w, report_title, F) ==
    IF SelectSkip(w, report_title) THEN w
    ELSE IF w.experity.report_frame = None THEN Raise(w, "AttributeError")
    ELSE IF ~FrameUsable(w, "report_frame", "report") \/ "select" \in F
        THEN Raise(Emit(w, "select", <<report_title, FALSE>>), "Error")
    ELSE [Emit(w, "select", <<report_title, TRUE>>) EXCEPT
            !.portal.selected = Some(report_title),
            !.portal.params = Nothing,
            !.experity.current_report_select = Some(report_title)]

\* The options of the report form's month selects: the labels "Month YYYY"
\* of the closing months the portal knows.
IsMonthOption(label) == label \in MonthOptions

\* select_option / fill on the report form: needs the frame and a selected report
FormUsable(w) == FrameUsable(w, "report_frame", "report") /\ w.portal.selected # Nothing

\* select_month: any failure is logged, not raised
select_month(w, month_year, F) ==
    IF ~FormUsable(w) \/ ~IsMonthOption(month_year) \/ "config" \in F
    THEN Emit(w, "config", <<"month", <<month_year>>, FALSE>>)
    ELSE [Emit(w, "config", <<"month", <<month_year>>, TRUE>>) EXCEPT
            !.portal.params = Some(<<"month", month_year>>)]

\* select_months: any failure is logged, not raised
select_months(w, from_month, to_month, F) ==
    IF ~FormUsable(w) \/ ~IsMonthOption(from_month) \/ "config" \in F
    THEN Emit(w, "config", <<"months", <<from_month, to_month>>, FALSE>>)
    ELSE IF ~IsMonthOption(to_month) \/ "config_to" \in F
    THEN [Emit(w, "config", <<"months", <<from_month, to_month>>, FALSE>>) EXCEPT
            !.portal.params = Some(<<"months_from_only", from_month>>)]
    ELSE [Emit(w, "config", <<"months", <<from_month, to_month>>, TRUE>>) EXCEPT
            !.portal.params = Some(<<"months", from_month, to_month>>)]

\* select_dates: any failure is logged, not raised
select_dates(w, from_date, to_date, F) ==
    IF ~FormUsable(w) \/ "config" \in F
    THEN Emit(w, "config", <<"dates", <<from_date, to_date>>, FALSE>>)
    ELSE IF "config_to" \in F
    THEN [Emit(w, "config", <<"dates", <<from_date, to_date>>, FALSE>>) EXCEPT
            !.portal.params = Some(<<"dates_from_only", from_date>>)]
    ELSE [Emit(w, "config", <<"dates", <<from_date, to_date>>, TRUE>>) EXCEPT
            !.portal.params = Some(<<"dates", from_date, to_date>>)]

\* The handle of the next page the browser context opens
NewPopup(w) == CHOOSE i \in 1..(Cardinality(w.portal.popups) + 1) :
                 i \notin w.portal.popups

\* run_report: returns the popup the submit click opened
run_report(w, F) ==
    IF w.experity.report_frame = None THEN Raise(w, "AttributeError")
    ELSE IF ~FormUsable(w) \/ "run_click" \in F
        THEN Raise(Emit(w, "run", <<0, FALSE>>), "Error")
    ELSE IF "no_popup" \in F
        THEN Raise(Emit(w, "run", <<0, TRUE>>), "TimeoutError")
    ELSE LET id == NewPopup(w)
             popup == [id |-> id, report |-> w.portal.selected, params |-> w.portal.params]
         IN  [Emit(w, "run", <<id, TRUE>>) EXCEPT
                !.portal.popups = @ \cup {id},
                !.ret = popup]

\* a report_status that does not look at the error region
report_status_unchecked(w, popup, F) ==
    IF popup.id \notin w.portal.popups \/ "popup_wait" \in F
        THEN Raise(Emit(w, "await_ready", <<popup.id, "timeout">>), "TimeoutError")
    ELSE [Emit(w, "await_ready", <<popup.id, IF "error_region" \in F THEN "error" ELSE "loaded">>)
            EXCEPT !.ret = "loaded"]

\* report_status
report_status(w, popup, F) ==
    IF popup.id \notin w.portal.popups \/ "popup_wait" \in F
        THEN Raise(Emit(w, "await_ready", <<popup.id, "timeout">>), "TimeoutError")
    ELSE IF "error_region" \in F
        THEN Raise(Emit(w, "await_ready", <<popup.id, "error">>), "ReportError")
    ELSE [Emit(w, "await_ready", <<popup.id, "loaded">>) EXCEPT !.ret = "loaded"]

\* the text of a report format
FormatText(report_format) ==
    IF report_format = "csv" THEN <<"c", "s", "v">> ELSE <<"x", "l", "s", "x">>

\* download_report: file_name += "." + report_format; download.save_as(...)
download_report(w, popup, file_name, report_format, F) ==
    Bind(report_status(w, popup, F), LAMBDA w1 :
      IF ~Ok(w1) THEN w1
      ELSE IF w1.ret # "loaded" THEN w1
      ELSE IF "export" \in F
          THEN Raise(Emit(w1, "export", <<popup.id, report_format, FALSE>>), "Error")
      ELSE IF "download" \in F
          THEN Raise(Emit(w1, "export", <<popup.id, report_format, TRUE>>), "TimeoutError")
      ELSE IF w1.experity.download_dir = None
          THEN Raise(Emit(w1, "export", <<popup.id, report_format, TRUE>>), "TypeError")
      ELSE IF "save" \in F
          THEN Raise(Emit(w1, "export", <<popup.id, report_format, TRUE>>), "Error")
      ELSE Emit(Emit(w1, "export", <<popup.id, report_format, TRUE>>),
                "save", <<file_name, report_format, popup,
                          file_name \o <<".">> \o FormatText(report_format)>>))

\* page.close() of a popup
close_popup(w, popup) ==
    [Emit(w, "close", <<popup.id>>) EXCEPT !.portal.popups = @ \ {popup.id}]

\* clinic_data
base_clinic_data(w, file_name, F) ==
    IF w.portal.url # "ClinicInfo.aspx" \/ "wait" \in F
        THEN Raise(Emit(w, "clinic_wait", <<FALSE>>), "TimeoutError")
    ELSE IF w.experity.download_dir = None THEN Raise(w, "TypeError")
    ELSE IF "write" \in F THEN Raise(w, "OSError")
    ELSE Emit(w, "write", <<file_name>>)

\* report_data
base_report_data(w, file_name, F) ==
    IF w.experity.nav_frame = None THEN Raise(w, "AttributeError")
    ELSE IF ~FrameUsable(w, "nav_frame", "nav") \/ "wait" \in F
        THEN Raise(Emit(w, "form_wait", <<FALSE>>), "TimeoutError")
    ELSE IF w.experity.download_dir = None THEN Raise(w, "TypeError")
    ELSE IF "write" \in F THEN Raise(w, "OSError")
    ELSE Emit(w, "write", <<file_name>>)

\* _verify_login: wait_for_url(base_url + "LogBook.aspx"), then the final check
verify_login(w, F) ==
    IF w.experity.base_url = None \/ w.portal.url # "LogBook.aspx" \/ "wait_for_url" \in F
    THEN Raise(Emit(w, "verify", <<FALSE>>), "TimeoutError")
    ELSE Emit(w, "verify", <<TRUE>>)

\* user_login without the title check and without _verify_login
user_login_unverified(w, username, password, F) ==
    IF w.portal.url # "loginpage.aspx" \/ "type_login" \in F
        THEN Raise(Emit(w, "username", <<FALSE>>), "TimeoutError")
    ELSE LET w1 == Emit(w, "username", <<TRUE>>) IN
    IF "okta" \in F
    THEN LET w2 == [w1 EXCEPT !.portal = LoadDocument(@, "okta")] IN
         IF "password" \in F THEN Raise(Emit(w2, "okta_password", <<FALSE>>), "TimeoutError")
         ELSE [Emit(w2, "okta_password", <<TRUE>>) EXCEPT
                 !.portal.url = IF "rejected" \in F THEN "okta" ELSE "okta-mfa"]
    ELSE IF "password" \in F THEN Raise(Emit(w1, "password", <<FALSE>>), "TimeoutError")
    ELSE LET w2 == Emit(w1, "password", <<TRUE>>) IN
         IF "rejected" \in F THEN w2
         ELSE [w2 EXCEPT !.portal = LoadDocument([@ EXCEPT !.authenticated = TRUE],
                       IF "landing_other" \in F THEN "Other.aspx" ELSE "LogBook.aspx")]

\* user_login: the environment decides whether the username leads to the
\* identity provider ("okta") and whether the password is accepted.
user_login(w, username, password, F) ==
    IF w.portal.url # "loginpage.aspx" \/ "type_login" \in F
        THEN Raise(Emit(w, "username", <<FALSE>>), "TimeoutError")
    ELSE LET w1 == Emit(w, "username", <<TRUE>>) IN
    IF "okta" \in F
    THEN LET w2 == [w1 EXCEPT !.portal = LoadDocument(@, "okta")] IN
         IF "password" \in F THEN Raise(Emit(w2, "okta_password", <<FALSE>>), "TimeoutError")
         ELSE [Emit(w2, "okta_password", <<TRUE>>) EXCEPT
                 !.portal.url = IF "rejected" \in F THEN "okta" ELSE "okta-mfa"]
    ELSE IF "password" \in F THEN Raise(Emit(w1, "password", <<FALSE>>), "TimeoutError")
    ELSE LET w2 == Emit(w1, "password", <<TRUE>>) IN
         IF "rejected" \in F THEN Raise(w2, "Exception")
         ELSE verify_login(
                [w2 EXCEPT !.portal = LoadDocument([@ EXCEPT !.authenticated = TRUE],
                       IF "landing_other" \in F THEN "Other.aspx" ELSE "LogBook.aspx")], F)

\* enter_otp: the MFA field exists on the identity provider's challenge page
enter_otp(w, otp, F) ==
    IF w.portal.url # "okta-mfa" \/ "type_otp" \in F
        THEN Raise(Emit(w, "otp", <<FALSE>>), "TimeoutError")
    ELSE LET w1 == Emit(w, "otp", <<TRUE>>) IN
         IF "otp_rejected" \in F THEN verify_login(w1, F)
         ELSE verify_login(
                [w1 EXCEPT !.portal = LoadDocument([@ EXCEPT !.authenticated = TRUE],
                       IF "landing_other" \in F THEN "Other.aspx" ELSE "LogBook.aspx")], F)

\* The portal pages that carry the menu bar with the logout control
MenuPages == {"LogBook.aspx", "Reports.aspx", "ClinicInfo.aspx", "Other.aspx"}

\* user_logout
user_logout(w, F) ==
    IF ~(w.portal.authenticated /\ w.portal.url \in MenuPages) \/ "logout_btn" \in F
        THEN Raise(Emit(w, "logout", <<FALSE>>), "TimeoutError")
    ELSE LET w1 == [Emit(w, "logout", <<TRUE>>) EXCEPT
                      !.portal = LoadDocument([@ EXCEPT !.authenticated = FALSE], "loginpage.aspx")]
         IN  IF "load" \in F THEN Raise(w1, "TimeoutError") ELSE w1

\* a page list that still holds the primary page after the browser was closed
ContextPagesWithPrimary(w) == 1 + Cardinality(w.portal.popups)

\* page.context.pages: the primary page (index 0) and the open popups
ContextPages(w) ==
    IF w.portal.url = "closed" THEN 0 ELSE 1 + Cardinality(w.portal.popups)

RECURSIVE ScreenshotsUntilFailure(_, _, _, _)
\* a loop over the pages that gives up at the first screenshot that fails
ScreenshotsUntilFailure(w, index, n, F) ==
    IF index >= n THEN w
    ELSE IF w.experity.screenshot_dir = None \/ index \in F
        THEN Emit(w, "screenshot", <<index, FALSE>>)
    ELSE ScreenshotsUntilFailure(Emit(w, "screenshot", <<index, TRUE>>), index + 1, n, F)

RECURSIVE Screenshots(_, _, _, _)
\* collect_exception_artifacts: the loop over enumerate(pages)
Screenshots(w, index, n, F) ==
    IF index >= n THEN w
    ELSE Screenshots(
           Emit(w, "screenshot",
                <<index, ~(w.experity.screenshot_dir = None \/ index \in F)>>),
           index + 1, n, F)

\* collect_exception_artifacts; F: the indices whose screenshot fails, -1 when
\* the page list itself cannot be read
collect_exception_artifacts(w, F) ==
    IF -1 \in F THEN Raise(w, "Error")
    ELSE IF ContextPages(w) = 0 THEN Emit(w, "warning", <<"No pages">>)
    ELSE Screenshots(w, 0, ContextPages(w), F)

----------------------------------------------------------------------------
(* BrowserManager *)

\* BrowserManager.__init__
ManagerInit == [playwright |-> None, browser |-> None, context |-> None, page |-> None]

\* Closing the context or the browser closes every page
PagesGone(p) == [LoadDocument(p, "closed") EXCEPT !.popups = {}]

\* BrowserManager.close: one try block, the finally clause clears the fields
manager_close(w, F) ==
    LET m == w.manager
        c1 == IF m.context # None /\ "context_close" \notin F
              THEN [w EXCEPT !.portal = PagesGone([@ EXCEPT !.res.context = "closed"])]
              ELSE w
        failed1 == m.context # None /\ "context_close" \in F
        c2 == IF ~failed1 /\ m.browser # None /\ "browser_close" \notin F
              THEN [c1 EXCEPT !.portal = PagesGone([@ EXCEPT !.res.browser = "closed",
                                                            !.res.context = "closed"])]
              ELSE c1
        failed2 == failed1 \/ (m.browser # None /\ "browser_close" \in F)
        c3 == IF ~failed2 /\ m.playwright # None /\ "playwright_stop" \notin F
              THEN [c2 EXCEPT !.portal.res.driver = "closed"]
              ELSE c2
        failed3 == failed2 \/ (m.playwright # None /\ "playwright_stop" \in F)
    IN  [Emit(c3, "manager_close", <<~failed3>>) EXCEPT !.manager = ManagerInit]

\* BrowserManager.launch: every except clause closes and re-raises
launch(w, F) ==
    LET fail(x) == Raise(manager_close(x, F), "Error") IN
    IF "start" \in F THEN fail(w)
    ELSE LET w1 == [w EXCEPT !.manager.playwright = "set", !.portal.res.driver = "open"] IN
    IF "launch" \in F THEN fail(w1)
    ELSE LET w2 == [w1 EXCEPT !.manager.browser = "set", !.portal.res.browser = "open"] IN
    IF "new_context" \in F THEN fail(w2)
    ELSE LET w3 == [w2 EXCEPT !.manager.context = "set", !.portal.res.context = "open"] IN
    IF "new_page" \in F THEN fail(w3)
    ELSE [w3 EXCEPT !.manager.page = "set", !.portal.url = "about:blank"]

----------------------------------------------------------------------------
(* ExperityReports: the facade.  F is a set of fault sites <<unit, primitive>>; *)
(* each underlying call receives the primitives of its own unit.              *)

At(F, unit) == { site[2] : site \in { t \in F : t[1] = unit } }

\* ExperityReports.__init__: manager.launch(), then ExperityBase(page)
construct(w, F) ==
    LET w1 == launch(w, At(F, "launch") \cup At(F, "close")) IN
    IF Ok(w1) THEN [w1 EXCEPT !.experity = ExperityInit] ELSE w1

\* login body that goes on to the one-time code whatever happened before it
\* and whatever the credentials hold
login_body_otp_always(w, credentials, F) ==
    Bind(Then(open_portal(w, At(F, "open")),
              LAMBDA x : user_login(x, credentials.username, credentials.password,
                                    At(F, "login"))),
         LAMBDA w2 : enter_otp(Emit(w2, "generate_otp", <<>>), "code", At(F, "otp")))

\* login body: open_portal, user_login, and enter_otp when a passphrase is set
login_body(w, credentials, F) ==
    Bind(Then(open_portal(w, At(F, "open")),
              LAMBDA x : user_login(x, credentials.username, credentials.password,
                                    At(F, "login"))),
         LAMBDA w2 :
           IF Ok(w2) /\ credentials.auth_passphrase # Nothing
                     /\ Truthy(credentials.auth_passphrase[1])
           THEN IF <<"otp", "generate_otp">> \in F THEN Raise(w2, "Error")
                ELSE enter_otp(Emit(w2, "generate_otp", <<>>), "code", At(F, "otp"))
           ELSE w2)

\* login: except Exception: log
login(w, credentials, F) == Swallow(login_body(w, credentials, F))

\* logout with its except clause removed
logout_unguarded(w, F) == user_logout(w, At(F, "logout"))

\* logout: except Exception: log
logout(w, F) == Swallow(user_logout(w, At(F, "logout")))

\* close_browser: except Exception: log
close_browser(w, F) == Swallow(manager_close(w, At(F, "close")))

\* collect_exception: except Exception: log
collect_exception(w, F) == Swallow(collect_exception_artifacts(w, F))

\* clinic_data: except Exception: log; raise
clinic_data(w, file_name, F) ==
    Reraise(Then(navigate_page(w, "clinic", At(F, "nav")),
                 LAMBDA x : base_clinic_data(x, file_name, At(F, "data"))))

\* report_data: except Exception: log; raise
report_data(w, file_name, F) ==
    Reraise(Then(navigate_page(w, "report", At(F, "nav")),
                 LAMBDA x : base_report_data(x, file_name, At(F, "data"))))

\* page = run_report(); download_report(page, file_name);
\* download_report(page, file_name, report_format="xlsx"); page.close()
RunAndDownload(w, file_name, F) ==
    Then(run_report(w, At(F, "run")), LAMBDA w1 :
      Then(download_report(w1, w1.ret, file_name, "csv", At(F, "csv")), LAMBDA w2 :
        Then(download_report(w2, w1.ret, file_name, "xlsx", At(F, "xlsx")), LAMBDA w3 :
          close_popup(w3, w1.ret))))

\* navigate_page("report"), then select_report before search_report
SelectBeforeSearch(w, report_name, report_title, F) ==
    Then(Then(navigate_page(w, "report", At(F, "nav")),
              LAMBDA x : select_report(x, report_title, At(F, "select"))),
         LAMBDA x : search_report(x, report_name, At(F, "search")))

\* navigate_page("report"), search_report, select_report
OpenReport(w, report_name, report_title, F) ==
    Then(Then(navigate_page(w, "report", At(F, "nav")),
              LAMBDA x : search_report(x, report_name, At(F, "search"))),
         LAMBDA x : select_report(x, report_title, At(F, "select")))

\* a stem in which only the spaces are replaced
DateRangeStemSpacesOnly(report_name, from_date, to_date) ==
    Replace(report_name \o <<"_">> \o from_date \o <<"_">> \o to_date, " ", "_")

\* date_range_report: file_name
DateRangeStem(report_name, from_date, to_date) ==
    Replace(Replace(report_name \o <<"_">> \o from_date \o <<"_">> \o to_date,
                    " ", "_"), "/", "_")

\* date_range_report: except Exception: log; raise
date_range_report(w, report_name, report_title, from_date, to_date, F) ==
    Reraise(
      Then(Then(OpenReport(w, report_name, report_title, F),
                LAMBDA x : select_dates(x, from_date, to_date, At(F, "config"))),
           LAMBDA x : RunAndDownload(x, DateRangeStem(report_name, from_date, to_date), F)))

\* month_range_report: file_name
MonthRangeStem(report_name, from_month_year, to_month_year) ==
    Replace(report_name \o <<"_">> \o from_month_year \o <<"_">> \o to_month_year,
            " ", "_")

\* month_range_report: except Exception: log; raise
month_range_report(w, report_name, report_title, from_month_year, to_month_year, F) ==
    Reraise(
      Then(Then(OpenReport(w, report_name, report_title, F),
                LAMBDA x : select_months(x, from_month_year, to_month_year,
                                         At(F, "config"))),
           LAMBDA x : RunAndDownload(x, MonthRangeStem(report_name, from_month_year,
                                                       to_month_year), F)))

\* month_report: file_name
MonthStem(report_name, month) == Replace(report_name \o <<"_">> \o month, " ", "_")

\* month_report, before the loop: navigate_page, search_report, select_report
month_report_open(w, report_name, report_title, F) ==
    Reraise(OpenReport(w, report_name, report_title, F))

\* a loop body of month_report that runs the report before select_month
RunBeforeSelectMonth(w, report_name, month, F) ==
    Swallow(Then(RunAndDownload(w, MonthStem(report_name, month), F),
                 LAMBDA x : select_month(x, month, At(F, "config"))))

\* the loop body of month_report without its except clause
month_report_item_unguarded(w, report_name, month, F) ==
    Then(select_month(w, month, At(F, "config")),
         LAMBDA x : RunAndDownload(x, MonthStem(report_name, month), F))

\* month_report, one pass of "for month in month_year": except Exception: log; continue
month_report_item(w, report_name, month, F) ==
    Swallow(Then(select_month(w, month, At(F, "config")),
                 LAMBDA x : RunAndDownload(x, MonthStem(report_name, month), F)))

\* the loop body of month_range_report_monthly without its except clause
month_range_report_monthly_item_unguarded(w, report_name, report_title, month, F) ==
    month_range_report(w, report_name, report_title, month, month, F)

\* month_range_report_monthly, one pass of "for month in months":
\* except Exception: log; continue
month_range_report_monthly_item(w, report_name, report_title, month, F) ==
    Swallow(month_range_report(w, report_name, report_title, month, month, F))

----------------------------------------------------------------------------
(* Inputs and bounds *)

MaxLabels == 2      \* longest month list passed to a batch call
MaxPopups == 1      \* most secondary viewports left open at once

PAY_28 == <<"P","A","Y"," ","2","8">>
PHY_10 == <<"P","H","Y"," ","1","0">>
PAY_29 == <<"P","A","Y"," ","2","9">>
PAY_30 == <<"P","A","Y"," ","3","0">>
PHY_9 == <<"P","H","Y"," ","9">>
\* main.py: every title is "Expected AR, " + name
TitleOf(report_name) ==
    <<"E","x","p","e","c","t","e","d"," ","A","R",","," ">> \o report_name

ReportNames == {PAY_28, PHY_10}
BAD == <<"B","A","D">>
Labels == {MonthLabel(2024, 1), MonthLabel(2024, 3), BAD}

RangePairs == { <<MonthLabel(2024, 1), MonthLabel(2024, 3)>>,
                <<MonthLabel(2024, 1), BAD>> }

RECURSIVE ListsUpTo(_)
\* the lists of distinct labels of length <= n
ListsUpTo(n) ==
    IF n = 0 THEN { << >> }
    ELSE LET shorter == ListsUpTo(n - 1)
         IN  shorter \cup { Append(l, x) : l \in shorter, x \in Labels }
MonthLists == { l \in ListsUpTo(MaxLabels) :
                  \A i, j \in 1..Len(l) : i # j => l[i] # l[j] }

\* main.py: credentials (the last field is the OTP secret, or None)
CredentialSet ==
    { [client_id |-> "16", username |-> "user", password |-> "pw",
       auth_passphrase |-> a] : a \in {Nothing, Some(<<"K","E","Y">>), Some(<< >>)} }

\* Fault plans: at most one raising fault (the statements after it do not
\* run), together with any of the faults the code does not raise on.
Plans(raising, quiet) ==
    { q \cup r : q \in SUBSET quiet, r \in {{}} \cup { {x} : x \in raising } }

NavRaising == { <<"nav", "goto">>, <<"nav", "wait_idle">>, <<"nav", "no_main_frame">> }
NavQuiet == { <<"nav", "no_nav_frame">>, <<"nav", "no_report_frame">> }
OpenRaising == NavRaising \cup { <<"search", "search">>, <<"select", "select">> }
DownloadFaults == { "popup_wait", "error_region", "export", "download", "save" }
RunRaising ==
    { <<"run", "run_click">>, <<"run", "no_popup">> }
    \cup { <<fmt, x>> : fmt \in {"csv", "xlsx"}, x \in DownloadFaults }
ConfigQuiet == { <<"config", "config">>, <<"config", "config_to">> }
DataRaising == { <<"data", "wait">>, <<"data", "write">> }
LoginRaising ==
    { <<"open", "makedirs">>, <<"open", "goto">>, <<"login", "type_login">>,
      <<"login", "password">>, <<"login", "wait_for_url">>,
      <<"otp", "generate_otp">>, <<"otp", "type_otp">>, <<"otp", "wait_for_url">> }
LoginQuiet ==
    { <<"login", "okta">>, <<"login", "rejected">>, <<"login", "landing_other">>,
      <<"otp", "otp_rejected">> }
LogoutRaising == { <<"logout", "logout_btn">>, <<"logout", "load">> }
CloseRaising == { <<"close", "context_close">>, <<"close", "browser_close">>,
                  <<"close", "playwright_stop">> }
LaunchRaising == { <<"launch", "start">>, <<"launch", "launch">>,
                   <<"launch", "new_context">>, <<"launch", "new_page">> }

ReportPlans == Plans(OpenRaising \cup RunRaising, NavQuiet \cup ConfigQuiet)
OpenPlans == Plans(OpenRaising, NavQuiet)
ItemPlans == Plans(RunRaising, { <<"config", "config">> })
\* collect_exception_artifacts: which screenshots fail (-1: the page list)
ShotPlans == { {} } \cup { {i} : i \in -1..MaxPopups } \cup { {0, 1} }

----------------------------------------------------------------------------
(* The state machine *)

NoCall == [op |-> "none", args |-> << >>, exc |-> "none"]
NoLoop == [op |-> "none", report_name |-> << >>, report_title |-> << >>,
           items |-> << >>, i |-> 0, next |-> "none", handler |-> "none"]
\* the frame of a batch call that entered its loop over month_year; the caller
\* goes on at next when the call returns and at handler when it raises
Frame(op, report_name, report_title, month_year, next, handler) ==
    [op |-> op, report_name |-> report_name, report_title |-> report_title,
     items |-> Iterate(month_year), i |-> 1, next |-> next, handler |-> handler]

\* the utility modules are not in use
UtilsUnused == totp = Nothing /\ clock = 0 /\ sqlite = Nothing /\ ret = Nothing

\* The state before ExperityReports is constructed
World0 == [experity |-> ExperityInit, manager |-> ManagerInit, portal |-> PortalInit,
           log |-> << >>, exc |-> "none", ret |-> None]

\* After ExperityReports(BrowserManager, ExperityBase, ...) returned
Constructed == construct(World0, {})

\* A call returns (or raises): its effects, its log and its outcome
Commit(w, op, args, next) ==
    /\ Cardinality(w.portal.popups) <= MaxPopups
    /\ experity' = w.experity
    /\ manager' = w.manager
    /\ portal' = w.portal
    /\ log' = w.log
    /\ last' = [op |-> op, args |-> args, exc |-> w.exc]
    /\ pc' = next
    /\ UNCHANGED utils

\* The caller takes control back and makes its next call
Return ==
    /\ pc = "returned"
    /\ pc' = "idle"
    /\ log' = << >>
    /\ last' = NoCall
    /\ UNCHANGED <<experity, manager, portal, loop, utils>>

\* login is the first call of the lifecycle
Login ==
    /\ pc = "new"
    /\ \E c \in CredentialSet, F \in Plans(LoginRaising, LoginQuiet) :
         Commit(login(World, c, F), "login", <<c>>, "returned")
    /\ UNCHANGED loop

Logout ==
    /\ pc = "idle"
    /\ \E F \in Plans(LogoutRaising, {}) :
         Commit(logout(World, F), "logout", << >>, "returned")
    /\ UNCHANGED loop

CloseBrowser ==
    /\ pc = "idle"
    /\ \E F \in Plans(CloseRaising, {}) :
         Commit(close_browser(World, F), "close_browser", << >>, "returned")
    /\ UNCHANGED loop

CollectException ==
    /\ pc = "idle"
    /\ \E F \in ShotPlans :
         Commit(collect_exception(World, F), "collect_exception", << >>, "returned")
    /\ UNCHANGED loop

\* experity.collect_exception_artifacts() called directly; F: the indices of
\* the pages whose screenshot fails
CollectExceptionArtifacts ==
    /\ pc = "idle"
    /\ \E F \in SUBSET (0..MaxPopups) :
         Commit(collect_exception_artifacts(World, F),
                "collect_exception_artifacts", <<F>>, "returned")
    /\ UNCHANGED loop

ClinicData ==
    /\ pc = "idle"
    /\ \E F \in Plans(NavRaising \cup DataRaising, {}) :
         Commit(clinic_data(World, "ClinicData.html", F), "clinic_data", << >>, "returned")
    /\ UNCHANGED loop

ReportData ==
    /\ pc = "idle"
    /\ \E F \in Plans(NavRaising \cup DataRaising, NavQuiet) :
         Commit(report_data(World, "ClinicReport.html", F), "report_data", << >>, "returned")
    /\ UNCHANGED loop

DateRangeReport ==
    /\ pc = "idle"
    /\ \E n \in ReportNames, F \in ReportPlans :
         Commit(date_range_report(World, n, TitleOf(n), FROM_DATE, TO_DATE, F),
                "date_range_report", <<n, FROM_DATE, TO_DATE>>, "returned")
    /\ UNCHANGED loop

MonthRangeReport ==
    /\ pc = "idle"
    /\ \E n \in ReportNames, r \in RangePairs, F \in ReportPlans :
         Commit(month_range_report(World, n, TitleOf(n), r[1], r[2], F),
                "month_range_report", <<n, r[1], r[2]>>, "returned")
    /\ UNCHANGED loop

\* month_report is entered: the statements before the loop
MonthReport ==
    /\ pc = "idle"
    /\ \E n \in ReportNames, l \in MonthLists, F \in OpenPlans :
         LET w == month_report_open(World, n, TitleOf(n), F) IN
         /\ Commit(w, "month_report", <<n, l>>, IF Ok(w) THEN "loop" ELSE "returned")
         /\ loop' = IF Ok(w)
                    THEN Frame("month_report", n, TitleOf(n), PyList(l),
                               "returned", "returned")
                    ELSE NoLoop

\* one pass of a batch call's loop ended with w: the loop goes on, or the
\* exception reaches the outer "except Exception: log; raise" of the call
LoopStep(w, op, args) ==
    /\ Commit(Reraise(w), IF Ok(w) THEN op ELSE loop.op, args,
              IF Ok(w) THEN "loop" ELSE loop.handler)
    /\ loop' = IF Ok(w) THEN [loop EXCEPT !.i = @ + 1] ELSE NoLoop

\* one pass of month_report's loop
MonthReportItem ==
    /\ pc = "loop" /\ loop.op = "month_report" /\ loop.i <= Len(loop.items)
    /\ \E F \in ItemPlans :
         LoopStep(month_report_item(World, loop.report_name, loop.items[loop.i], F),
                  "month_report_item", <<loop.report_name, loop.items[loop.i]>>)

\* month_range_report_monthly is entered
Monthly ==
    /\ pc = "idle"
    /\ \E n \in ReportNames, l \in MonthLists :
         /\ Commit(World, "month_range_report_monthly", <<n, l>>, "loop")
         /\ loop' = Frame("month_range_report_monthly", n, TitleOf(n), PyList(l),
                          "returned", "returned")

\* one pass of month_range_report_monthly's loop
MonthlyItem ==
    /\ pc = "loop" /\ loop.op = "month_range_report_monthly" /\ loop.i <= Len(loop.items)
    /\ \E F \in ReportPlans :
         LoopStep(month_range_report_monthly_item(World, loop.report_name,
                                                  loop.report_title, loop.items[loop.i], F),
                  "month_range_report_monthly_item",
                  <<loop.report_name, loop.items[loop.i]>>)

\* the loop is exhausted: the batch call returns normally
LoopDone ==
    /\ pc = "loop" /\ loop.i > Len(loop.items)
    /\ Commit(World, loop.op, <<loop.report_name>>, loop.next)
    /\ loop' = NoLoop

Init ==
    /\ experity = Constructed.experity
    /\ manager = Constructed.manager
    /\ portal = Constructed.portal
    /\ log = << >>
    /\ last = NoCall
    /\ pc = "new"
    /\ loop = NoLoop
    /\ UtilsUnused

\* The facade called in any order: login, data collection, range reports, teardown
Next ==
    \/ Login \/ Logout \/ CloseBrowser \/ CollectException \/ CollectExceptionArtifacts
    \/ ClinicData \/ ReportData \/ DateRangeReport \/ MonthRangeReport
    \/ Return

Spec == Init /\ [][Next]_vars

\* The facade's batch calls, after login
NextBatch ==
    \/ Login \/ MonthReport \/ MonthReportItem \/ Monthly \/ MonthlyItem \/ LoopDone
    \/ Return

SpecBatch == Init /\ [][NextBatch]_vars

----------------------------------------------------------------------------
(* ExperityBase called directly, in any order, on a session opened by login *)

PageNames == {"report", "clinic", "admin"}

NavigatePage ==
    /\ pc = "idle"
    /\ \E page_name \in PageNames, F \in Plans(NavRaising, NavQuiet) :
         Commit(navigate_page(World, page_name, At(F, "nav")),
                "navigate_page", <<page_name>>, "returned")
    /\ UNCHANGED loop

SearchReport ==
    /\ pc = "idle"
    /\ \E report_name \in ReportNames, F \in SUBSET {"search"} :
         Commit(search_report(World, report_name, F),
                "search_report", <<report_name>>, "returned")
    /\ UNCHANGED loop

SelectReport ==
    /\ pc = "idle"
    /\ \E report_name \in ReportNames, F \in SUBSET {"select"} :
         Commit(select_report(World, TitleOf(report_name), F),
                "select_report", <<TitleOf(report_name)>>, "returned")
    /\ UNCHANGED loop

NextBase == Login \/ NavigatePage \/ SearchReport \/ SelectReport \/ Return

SpecBase == Init /\ [][NextBase]_vars

----------------------------------------------------------------------------
(* main.py: the main driver *)

\* main.py: credentials = Credentials("16", <username>, <password>, <OTP secret>)
credentials ==
    [client_id |-> "16", username |-> "user", password |-> "pw",
     auth_passphrase |-> Some(<<"K","E","Y">>)]

\* main.py: months = get_months_between(FROM_DATE, TO_DATE)
months == get_months_between(FROM_DATE, TO_DATE)

\* Python's seq[-k] and seq[:-k]
FromEnd(seq, k) == seq[Len(seq) - k + 1]
DropLast(seq, k) == SubSeq(seq, 1, Len(seq) - k)

\* a statement of the try block: the next statement, or the except clause
MainStep(w, op, args, next) == Commit(w, op, args, IF Ok(w) THEN next ELSE "except")

\* automation = ExperityReports(BrowserManager, ExperityBase, ...): outside the try
MainConstruct ==
    /\ pc = "construct"
    /\ \E F \in Plans(LaunchRaising, CloseRaising) :
         LET w == construct(World, F) IN
         Commit(w, "construct", << >>, IF Ok(w) THEN "login" ELSE "crashed")
    /\ UNCHANGED loop

MainLogin ==
    /\ pc = "login"
    /\ \E F \in Plans(LoginRaising, LoginQuiet) :
         MainStep(login(World, credentials, F), "login", << >>, "clinic_data")
    /\ UNCHANGED loop

MainClinicData ==
    /\ pc = "clinic_data"
    /\ \E F \in Plans(NavRaising \cup DataRaising, {}) :
         MainStep(clinic_data(World, "ClinicData.html", F), "clinic_data", << >>,
                  "report_data")
    /\ UNCHANGED loop

MainReportData ==
    /\ pc = "report_data"
    /\ \E F \in Plans(NavRaising \cup DataRaising, NavQuiet) :
         MainStep(report_data(World, "ClinicReport.html", F), "report_data", << >>,
                  "month_range_report")
    /\ UNCHANGED loop

\* month_range_report("PAY 28", "Expected AR, PAY 28", months[0], months[-2])
MainMonthRange ==
    /\ pc = "month_range_report"
    /\ \E F \in ReportPlans :
         MainStep(month_range_report(World, PAY_28, TitleOf(PAY_28),
                                     months[1], FromEnd(months, 2), F),
                  "month_range_report", <<PAY_28>>, "month_report_1")
    /\ UNCHANGED loop

\* a month_report call of the driver: the statements before its loop
MainMonthReport(at, report_name, month_year, next) ==
    /\ pc = at
    /\ \E F \in OpenPlans :
         LET w == month_report_open(World, report_name, TitleOf(report_name), F) IN
         /\ Commit(w, "month_report", <<report_name>>, IF Ok(w) THEN "loop" ELSE "except")
         /\ loop' = IF Ok(w)
                    THEN Frame("month_report", report_name, TitleOf(report_name),
                               month_year, next, "except")
                    ELSE NoLoop

\* month_report("PAY 29", "Expected AR, PAY 29", months[:-2])
MainMonthReport1 ==
    MainMonthReport("month_report_1", PAY_29, PyList(DropLast(months, 2)), "date_range_1")

\* date_range_report("PAY 30", ...) and date_range_report("PHY 9", ...)
MainDateRange(at, report_name, next) ==
    /\ pc = at
    /\ \E F \in ReportPlans :
         MainStep(date_range_report(World, report_name, TitleOf(report_name),
                                    FROM_DATE, TO_DATE, F),
                  "date_range_report", <<report_name>>, next)
    /\ UNCHANGED loop

MainDateRange1 == MainDateRange("date_range_1", PAY_30, "date_range_2")
MainDateRange2 == MainDateRange("date_range_2", PHY_9, "month_report_2")

\* month_report("PHY 10", "Expected AR, PHY 10", months[-2]): the argument is a str
MainMonthReport2 ==
    MainMonthReport("month_report_2", PHY_10, PyStr(FromEnd(months, 2)), "logout")

\* except Exception as e: automation.collect_exception()
MainExcept ==
    /\ pc = "except"
    /\ \E F \in ShotPlans :
         Commit(collect_exception(World, F), "collect_exception", << >>, "logout")
    /\ UNCHANGED loop

\* finally: automation.logout()
MainLogout ==
    /\ pc = "logout"
    /\ \E F \in Plans(LogoutRaising, {}) :
         LET w == logout(World, F) IN
         Commit(w, "logout", << >>, IF Ok(w) THEN "close_browser" ELSE "crashed")
    /\ UNCHANGED loop

\* finally: automation.close_browser()
MainClose ==
    /\ pc = "close_browser"
    /\ \E F \in Plans(CloseRaising, {}) :
         LET w == close_browser(World, F) IN
         Commit(w, "close_browser", << >>, IF Ok(w) THEN "done" ELSE "crashed")
    /\ UNCHANGED loop

InitMain ==
    /\ experity = ExperityInit
    /\ manager = ManagerInit
    /\ portal = PortalInit
    /\ log = << >>
    /\ last = NoCall
    /\ pc = "construct"
    /\ loop = NoLoop
    /\ UtilsUnused

NextMain ==
    \/ MainConstruct \/ MainLogin \/ MainClinicData \/ MainReportData
    \/ MainMonthRange \/ MainMonthReport1 \/ MainDateRange1 \/ MainDateRange2
    \/ MainMonthReport2 \/ MonthReportItem \/ LoopDone
    \/ MainExcept \/ MainLogout \/ MainClose

SpecMain == InitMain /\ [][NextMain]_vars

----------------------------------------------------------------------------
(* BrowserManager on its own: launch() and close() called in any order *)

\* the browsers launch() knows, and a name it does not know
BrowserNames == {"chromium", "firefox", "webkit"}
BrowserNameSet == BrowserNames \cup {"opera"}

\* launch() of a manager made for browser_name: an unknown name is rejected
\* after the driver was started
launch_named(w, browser_name, F) ==
    launch(w, IF browser_name \in BrowserNames THEN F ELSE F \cup {"launch"})

\* manager.launch() on a manager that holds nothing
ManagerLaunch ==
    /\ pc = "idle" /\ manager = ManagerInit
    /\ \E browser_name \in BrowserNameSet, F \in Plans(LaunchRaising, CloseRaising) :
         Commit(launch_named(World, browser_name, At(F, "launch") \cup At(F, "close")),
                "manager_launch", <<browser_name>>, "returned")
    /\ UNCHANGED loop

\* manager.close(), whatever the manager holds
ManagerClose ==
    /\ pc = "idle"
    /\ \E F \in SUBSET CloseRaising :
         Commit(manager_close(World, At(F, "close")), "manager_close", << >>, "returned")
    /\ UNCHANGED loop

\* after BrowserManager(): nothing launched yet
InitManager ==
    /\ experity = ExperityInit
    /\ manager = ManagerInit
    /\ portal = PortalInit
    /\ log = << >>
    /\ last = NoCall
    /\ pc = "idle"
    /\ loop = NoLoop
    /\ UtilsUnused

NextManager == ManagerLaunch \/ ManagerClose \/ Return

SpecManager == InitManager /\ [][NextManager]_vars

----------------------------------------------------------------------------
(* ExperityBase's session calls on their own, in any order *)

OpenPortal ==
    /\ pc = "idle"
    /\ \E F \in Plans({"makedirs", "goto"}, {}) :
         Commit(open_portal(World, F), "open_portal", << >>, "returned")
    /\ UNCHANGED loop

UserLogin ==
    /\ pc = "idle"
    /\ \E F \in Plans({"type_login", "password", "wait_for_url"},
                    {"okta", "rejected", "landing_other"}) :
         Commit(user_login(World, credentials.username, credentials.password, F),
                "user_login", << >>, "returned")
    /\ UNCHANGED loop

EnterOtp ==
    /\ pc = "idle"
    /\ \E F \in Plans({"type_otp", "wait_for_url"}, {"otp_rejected", "landing_other"}) :
         Commit(enter_otp(World, "code", F), "enter_otp", <<"code">>, "returned")
    /\ UNCHANGED loop

UserLogout ==
    /\ pc = "idle"
    /\ \E F \in Plans({"logout_btn", "load"}, {}) :
         Commit(user_logout(World, F), "user_logout", << >>, "returned")
    /\ UNCHANGED loop

\* after ExperityBase(page) on a launched browser: nothing opened yet
InitAuth ==
    /\ experity = Constructed.experity
    /\ manager = Constructed.manager
    /\ portal = Constructed.portal
    /\ log = << >>
    /\ last = NoCall
    /\ pc = "idle"
    /\ loop = NoLoop
    /\ UtilsUnused

\* the session calls, with navigate_page between them
NextAuth == OpenPortal \/ UserLogin \/ EnterOtp \/ NavigatePage \/ UserLogout \/ Return

SpecAuth == InitAuth /\ [][NextAuth]_vars

----------------------------------------------------------------------------
(* utils/auth/otp.py: TOTPProvider *)

\* str(n) of a non-negative int
RECURSIVE IntStr(_)
IntStr(n) == IF n < 10 THEN << Digit[n + 1] >> ELSE Append(IntStr(n \div 10), Digit[(n % 10) + 1])

\* str.zfill(width)
RECURSIVE zfill(_, _)
zfill(s, width) == IF Len(s) >= width THEN s ELSE zfill(<<"0">> \o s, width)

\* str.upper() of the algorithm names in use
upper(algorithm) == IF algorithm = "sha1" THEN "SHA1" ELSE algorithm

\* the secrets that base64.b32decode accepts, and one it rejects
Base32Secrets == { "JBSWY3DPEHPK3PXP", "GEZDGNBVGY3TQOJQ" }
SecretSet == Base32Secrets \cup { "not-base32" }
IntervalSet == { 30, 60 }
DigitsSet == { 6, 8 }
AlgorithmSet == { "SHA1", "SHA256", "SHA512", "sha1", "MD5" }

\* the largest drift window passed to verify
MaxWindow == 2
\* int(time.time()): a second, the last second of its 30-second step, and the
\* first second of the next step
ClockStart == 1806080490
ClockValues == { ClockStart, ClockStart + 29, ClockStart + 30 }

\* hmac.new(key, struct.pack(">Q", counter), digest).digest(), as bytes: the
\* digests of hashlib's sha1, sha256 and sha512 for the secrets and the
\* counters in use
HmacTable ==
    <<"SHA1", "JBSWY3DPEHPK3PXP", 60202679>> :>
        <<200, 161, 95, 109, 105, 33, 89, 217, 175, 52, 39, 34, 116, 225, 131, 159, 39, 232, 229,
          100>> @@
    <<"SHA1", "JBSWY3DPEHPK3PXP", 60202680>> :>
        <<143, 15, 224, 236, 255, 235, 41, 224, 198, 190, 174, 182, 69, 79, 76, 233, 140, 33, 91,
          73>> @@
    <<"SHA1", "JBSWY3DPEHPK3PXP", 60202681>> :>
        <<126, 51, 61, 164, 208, 31, 203, 187, 108, 97, 240, 142, 81, 54, 205, 243, 192, 188, 25,
          119>> @@
    <<"SHA1", "JBSWY3DPEHPK3PXP", 60202682>> :>
        <<196, 173, 124, 157, 83, 7, 105, 134, 16, 224, 14, 94, 157, 185, 154, 41, 205, 183, 255,
          81>> @@
    <<"SHA1", "JBSWY3DPEHPK3PXP", 60202683>> :>
        <<40, 124, 75, 190, 182, 183, 102, 137, 72, 79, 55, 16, 5, 233, 219, 212, 64, 50, 148,
          234>> @@
    <<"SHA1", "JBSWY3DPEHPK3PXP", 60202684>> :>
        <<47, 109, 245, 244, 214, 241, 160, 90, 92, 123, 72, 96, 111, 159, 177, 12, 57, 113, 9,
          199>> @@
    <<"SHA1", "JBSWY3DPEHPK3PXP", 60202685>> :>
        <<123, 123, 68, 122, 42, 11, 184, 65, 202, 166, 89, 33, 226, 216, 109, 8, 164, 174, 136,
          207>> @@
    <<"SHA1", "JBSWY3DPEHPK3PXP", 60202686>> :>
        <<156, 184, 219, 71, 205, 14, 141, 122, 126, 151, 162, 114, 49, 120, 81, 171, 144, 30,
          140, 78>> @@
    <<"SHA1", "JBSWY3DPEHPK3PXP", 60202687>> :>
        <<249, 244, 68, 50, 145, 80, 64, 140, 235, 1, 169, 144, 104, 165, 63, 224, 248, 94, 232,
          146>> @@
    <<"SHA1", "JBSWY3DPEHPK3PXP", 60202688>> :>
        <<216, 113, 227, 18, 180, 230, 102, 120, 51, 255, 227, 189, 191, 88, 72, 159, 148, 108,
          90, 15>> @@
    <<"SHA1", "JBSWY3DPEHPK3PXP", 30101337>> :>
        <<5, 72, 85, 208, 166, 213, 87, 252, 195, 59, 237, 219, 104, 218, 93, 4, 125, 32, 234,
          228>> @@
    <<"SHA1", "JBSWY3DPEHPK3PXP", 30101338>> :>
        <<53, 113, 110, 46, 121, 18, 157, 3, 119, 214, 192, 96, 150, 241, 248, 184, 211, 62, 235,
          56>> @@
    <<"SHA1", "JBSWY3DPEHPK3PXP", 30101339>> :>
        <<141, 124, 177, 122, 206, 147, 76, 238, 159, 24, 122, 153, 25, 154, 53, 222, 56, 147, 27,
          52>> @@
    <<"SHA1", "JBSWY3DPEHPK3PXP", 30101340>> :>
        <<239, 118, 105, 80, 181, 206, 235, 105, 88, 227, 235, 0, 231, 182, 252, 241, 236, 156,
          156, 154>> @@
    <<"SHA1", "JBSWY3DPEHPK3PXP", 30101341>> :>
        <<24, 199, 190, 99, 241, 93, 207, 244, 1, 28, 71, 65, 187, 63, 215, 111, 89, 242, 113,
          53>> @@
    <<"SHA1", "JBSWY3DPEHPK3PXP", 30101342>> :>
        <<254, 202, 184, 132, 143, 92, 95, 157, 40, 223, 185, 199, 45, 44, 108, 240, 247, 38, 228,
          77>> @@
    <<"SHA1", "JBSWY3DPEHPK3PXP", 30101343>> :>
        <<154, 23, 183, 103, 15, 144, 6, 75, 201, 110, 198, 116, 126, 211, 114, 6, 187, 252, 19,
          53>> @@
    <<"SHA1", "JBSWY3DPEHPK3PXP", 30101344>> :>
        <<121, 139, 82, 32, 205, 175, 190, 110, 120, 209, 45, 252, 99, 97, 110, 211, 218, 135, 25,
          45>> @@
    <<"SHA1", "JBSWY3DPEHPK3PXP", 30101345>> :>
        <<153, 113, 156, 111, 87, 7, 158, 190, 151, 21, 152, 166, 133, 11, 96, 110, 133, 58, 158,
          34>> @@
    <<"SHA1", "JBSWY3DPEHPK3PXP", 30101346>> :>
        <<35, 138, 186, 145, 94, 62, 190, 77, 51, 175, 23, 100, 90, 214, 102, 160, 8, 225, 140,
          76>> @@
    <<"SHA1", "GEZDGNBVGY3TQOJQ", 60202679>> :>
        <<34, 7, 71, 23, 74, 169, 254, 111, 242, 125, 18, 204, 78, 65, 76, 51, 223, 105, 119, 88>>
          @@
    <<"SHA1", "GEZDGNBVGY3TQOJQ", 60202680>> :>
        <<180, 162, 119, 6, 122, 73, 125, 137, 220, 124, 11, 10, 200, 45, 117, 6, 227, 9, 113,
          150>> @@
    <<"SHA1", "GEZDGNBVGY3TQOJQ", 60202681>> :>
        <<85, 34, 131, 98, 64, 151, 194, 211, 168, 134, 47, 99, 214, 172, 202, 1, 219, 215, 74,
          147>> @@
    <<"SHA1", "GEZDGNBVGY3TQOJQ", 60202682>> :>
        <<106, 196, 38, 247, 193, 95, 233, 215, 120, 112, 246, 148, 143, 120, 26, 113, 226, 164,
          72, 231>> @@
    <<"SHA1", "GEZDGNBVGY3TQOJQ", 60202683>> :>
        <<171, 55, 115, 255, 73, 94, 117, 16, 231, 61, 9, 138, 72, 156, 5, 138, 127, 133, 219,
          187>> @@
    <<"SHA1", "GEZDGNBVGY3TQOJQ", 60202684>> :>
        <<47, 239, 24, 153, 147, 250, 145, 59, 71, 33, 27, 101, 112, 30, 127, 234, 204, 151, 167,
          136>> @@
    <<"SHA1", "GEZDGNBVGY3TQOJQ", 60202685>> :>
        <<112, 12, 175, 41, 191, 68, 19, 4, 122, 96, 178, 152, 119, 189, 50, 112, 194, 90, 76,
          146>> @@
    <<"SHA1", "GEZDGNBVGY3TQOJQ", 60202686>> :>
        <<68, 211, 0, 116, 114, 110, 121, 55, 139, 210, 48, 150, 14, 98, 98, 168, 107, 169, 126,
          203>> @@
    <<"SHA1", "GEZDGNBVGY3TQOJQ", 60202687>> :>
        <<4, 64, 246, 166, 32, 244, 73, 163, 202, 40, 219, 42, 241, 158, 1, 208, 22, 239, 208,
          221>> @@
    <<"SHA1", "GEZDGNBVGY3TQOJQ", 60202688>> :>
        <<227, 147, 169, 12, 223, 84, 126, 124, 22, 68, 53, 32, 254, 53, 253, 151, 193, 32, 22,
          251>> @@
    <<"SHA1", "GEZDGNBVGY3TQOJQ", 30101337>> :>
        <<176, 181, 97, 2, 183, 171, 128, 61, 179, 142, 197, 177, 91, 103, 82, 164, 7, 69, 27,
          170>> @@
    <<"SHA1", "GEZDGNBVGY3TQOJQ", 30101338>> :>
        <<16, 114, 106, 92, 201, 208, 75, 225, 62, 43, 253, 139, 134, 29, 113, 155, 151, 237, 83,
          241>> @@
    <<"SHA1", "GEZDGNBVGY3TQOJQ", 30101339>> :>
        <<85, 69, 103, 187, 5, 38, 90, 197, 196, 203, 160, 137, 106, 39, 255, 29, 120, 67, 160,
          207>> @@
    <<"SHA1", "GEZDGNBVGY3TQOJQ", 30101340>> :>
        <<184, 189, 251, 234, 233, 182, 114, 107, 239, 17, 121, 241, 31, 129, 206, 2, 126, 179,
          109, 101>> @@
    <<"SHA1", "GEZDGNBVGY3TQOJQ", 30101341>> :>
        <<179, 28, 252, 210, 168, 73, 84, 105, 225, 77, 117, 103, 33, 38, 88, 143, 113, 191, 248,
          131>> @@
    <<"SHA1", "GEZDGNBVGY3TQOJQ", 30101342>> :>
        <<190, 53, 167, 22, 245, 40, 10, 105, 182, 118, 37, 49, 137, 0, 133, 246, 35, 0, 124,
          143>> @@
    <<"SHA1", "GEZDGNBVGY3TQOJQ", 30101343>> :>
        <<45, 54, 84, 183, 247, 25, 110, 86, 217, 233, 111, 199, 138, 21, 0, 168, 45, 176, 14,
          97>> @@
    <<"SHA1", "GEZDGNBVGY3TQOJQ", 30101344>> :>
        <<231, 174, 152, 96, 211, 86, 215, 67, 208, 219, 216, 233, 37, 65, 251, 74, 104, 77, 217,
          157>> @@
    <<"SHA1", "GEZDGNBVGY3TQOJQ", 30101345>> :>
        <<245, 242, 210, 37, 242, 49, 85, 125, 10, 185, 31, 207, 72, 105, 147, 212, 104, 112, 157,
          108>> @@
    <<"SHA1", "GEZDGNBVGY3TQOJQ", 30101346>> :>
        <<190, 104, 67, 122, 138, 109, 104, 238, 187, 212, 76, 182, 250, 155, 106, 30, 92, 193, 2,
          224>> @@
    <<"SHA256", "JBSWY3DPEHPK3PXP", 60202679>> :>
        <<81, 120, 215, 228, 252, 48, 253, 71, 108, 180, 183, 179, 116, 183, 5, 146, 222, 243, 3,
          60, 11, 87, 124, 64, 125, 30, 148, 164, 210, 165, 101, 153>> @@
    <<"SHA256", "JBSWY3DPEHPK3PXP", 60202680>> :>
        <<75, 21, 63, 139, 106, 17, 121, 98, 210, 95, 165, 128, 88, 164, 15, 249, 164, 207, 125,
          234, 56, 17, 13, 209, 222, 222, 15, 150, 106, 16, 56, 77>> @@
    <<"SHA256", "JBSWY3DPEHPK3PXP", 60202681>> :>
        <<91, 106, 125, 164, 23, 61, 49, 52, 69, 240, 243, 237, 154, 75, 193, 121, 14, 217, 44,
          224, 170, 13, 194, 184, 239, 144, 165, 148, 138, 217, 217, 170>> @@
    <<"SHA256", "JBSWY3DPEHPK3PXP", 60202682>> :>
        <<30, 64, 158, 12, 202, 44, 230, 250, 131, 130, 90, 115, 139, 48, 158, 8, 66, 66, 34, 143,
          205, 2, 65, 37, 241, 119, 251, 111, 45, 179, 141, 82>> @@
    <<"SHA256", "JBSWY3DPEHPK3PXP", 60202683>> :>
        <<43, 34, 24, 48, 114, 208, 138, 141, 248, 134, 167, 117, 35, 22, 152, 92, 163, 145, 66,
          194, 255, 4, 27, 45, 7, 203, 51, 29, 11, 222, 153, 116>> @@
    <<"SHA256", "JBSWY3DPEHPK3PXP", 60202684>> :>
        <<83, 31, 168, 68, 134, 67, 167, 235, 117, 75, 57, 241, 13, 89, 191, 96, 46, 94, 148, 3,
          108, 3, 73, 246, 43, 46, 244, 33, 174, 140, 225, 11>> @@
    <<"SHA256", "JBSWY3DPEHPK3PXP", 60202685>> :>
        <<247, 28, 44, 238, 18, 211, 97, 124, 178, 233, 74, 205, 86, 207, 153, 0, 44, 182, 182,
          72, 105, 115, 130, 186, 61, 253, 131, 100, 123, 75, 65, 199>> @@
    <<"SHA256", "JBSWY3DPEHPK3PXP", 60202686>> :>
        <<201, 87, 37, 114, 118, 245, 128, 209, 28, 15, 171, 41, 10, 175, 32, 245, 139, 126, 37,
          115, 180, 72, 39, 111, 189, 52, 201, 70, 35, 7, 93, 82>> @@
    <<"SHA256", "JBSWY3DPEHPK3PXP", 60202687>> :>
        <<240, 80, 154, 127, 137, 103, 19, 228, 18, 46, 72, 234, 43, 7, 217, 253, 246, 155, 224,
          244, 153, 135, 132, 235, 68, 195, 14, 227, 233, 126, 242, 155>> @@
    <<"SHA256", "JBSWY3DPEHPK3PXP", 60202688>> :>
        <<242, 54, 243, 173, 92, 118, 109, 237, 228, 201, 44, 229, 150, 250, 204, 211, 13, 217,
          71, 31, 25, 91, 134, 67, 170, 3, 217, 113, 46, 32, 225, 116>> @@
    <<"SHA256", "JBSWY3DPEHPK3PXP", 30101337>> :>
        <<208, 185, 84, 72, 165, 146, 18, 148, 26, 177, 42, 87, 94, 204, 58, 144, 10, 122, 89, 76,
          112, 27, 66, 96, 197, 224, 55, 217, 68, 248, 178, 241>> @@
    <<"SHA256", "JBSWY3DPEHPK3PXP", 30101338>> :>
        <<112, 53, 103, 174, 122, 144, 250, 125, 32, 33, 41, 65, 252, 51, 75, 113, 141, 139, 23,
          211, 149, 125, 70, 102, 191, 17, 209, 54, 203, 104, 119, 204>> @@
    <<"SHA256", "JBSWY3DPEHPK3PXP", 30101339>> :>
        <<121, 139, 66, 92, 1, 243, 3, 233, 94, 63, 150, 62, 129, 31, 87, 52, 231, 184, 153, 50,
          178, 8, 122, 172, 192, 16, 24, 198, 186, 76, 92, 30>> @@
    <<"SHA256", "JBSWY3DPEHPK3PXP", 30101340>> :>
        <<131, 234, 251, 75, 213, 160, 194, 236, 75, 201, 102, 48, 170, 137, 63, 17, 57, 3, 223,
          186, 250, 38, 246, 20, 55, 73, 137, 29, 151, 212, 254, 120>> @@
    <<"SHA256", "JBSWY3DPEHPK3PXP", 30101341>> :>
        <<7, 41, 125, 98, 177, 74, 182, 214, 204, 89, 151, 137, 106, 241, 121, 175, 222, 212, 163,
          209, 98, 243, 191, 177, 87, 32, 237, 197, 87, 153, 233, 6>> @@
    <<"SHA256", "JBSWY3DPEHPK3PXP", 30101342>> :>
        <<1, 224, 15, 123, 89, 179, 17, 130, 203, 88, 191, 158, 123, 176, 251, 207, 111, 153, 122,
          242, 121, 19, 213, 102, 170, 206, 56, 38, 205, 179, 130, 247>> @@
    <<"SHA256", "JBSWY3DPEHPK3PXP", 30101343>> :>
        <<25, 76, 84, 232, 222, 112, 99, 100, 79, 66, 42, 253, 229, 86, 91, 216, 73, 89, 243, 155,
          182, 117, 62, 13, 18, 232, 203, 80, 188, 138, 33, 230>> @@
    <<"SHA256", "JBSWY3DPEHPK3PXP", 30101344>> :>
        <<107, 249, 241, 128, 130, 183, 51, 109, 50, 136, 116, 57, 20, 63, 64, 229, 121, 35, 141,
          42, 29, 198, 150, 202, 34, 113, 148, 154, 138, 51, 245, 250>> @@
    <<"SHA256", "JBSWY3DPEHPK3PXP", 30101345>> :>
        <<129, 23, 236, 19, 25, 99, 63, 40, 203, 113, 236, 217, 223, 79, 1, 248, 107, 149, 197,
          227, 142, 123, 127, 10, 212, 230, 102, 51, 196, 128, 206, 233>> @@
    <<"SHA256", "JBSWY3DPEHPK3PXP", 30101346>> :>
        <<84, 153, 150, 232, 39, 177, 220, 164, 77, 63, 228, 193, 136, 60, 18, 175, 190, 44, 218,
          31, 123, 123, 149, 91, 168, 224, 176, 97, 198, 207, 195, 56>> @@
    <<"SHA256", "GEZDGNBVGY3TQOJQ", 60202679>> :>
        <<138, 40, 245, 239, 230, 1, 185, 72, 141, 38, 130, 18, 77, 191, 56, 243, 62, 81, 84, 48,
          185, 136, 41, 30, 66, 164, 222, 51, 21, 19, 91, 218>> @@
    <<"SHA256", "GEZDGNBVGY3TQOJQ", 60202680>> :>
        <<119, 27, 126, 32, 181, 34, 10, 100, 80, 161, 186, 63, 62, 57, 238, 129, 127, 172, 3,
          227, 56, 65, 243, 71, 239, 63, 84, 92, 11, 150, 165, 15>> @@
    <<"SHA256", "GEZDGNBVGY3TQOJQ", 60202681>> :>
        <<117, 70, 176, 215, 130, 95, 241, 97, 44, 167, 153, 13, 123, 245, 214, 109, 192, 27, 127,
          187, 246, 160, 135, 62, 68, 79, 207, 250, 28, 177, 67, 170>> @@
    <<"SHA256", "GEZDGNBVGY3TQOJQ", 60202682>> :>
        <<5, 201, 211, 170, 169, 240, 61, 192, 45, 75, 155, 209, 172, 50, 243, 227, 175, 198, 203,
          63, 131, 26, 240, 88, 6, 50, 43, 187, 187, 149, 97, 155>> @@
    <<"SHA256", "GEZDGNBVGY3TQOJQ", 60202683>> :>
        <<83, 250, 158, 27, 167, 212, 76, 31, 236, 19, 6, 202, 14, 93, 108, 235, 63, 44, 52, 77,
          246, 227, 9, 102, 2, 0, 132, 184, 167, 159, 45, 80>> @@
    <<"SHA256", "GEZDGNBVGY3TQOJQ", 60202684>> :>
        <<124, 217, 35, 13, 232, 107, 10, 54, 21, 149, 172, 90, 236, 163, 75, 9, 9, 57, 102, 131,
          204, 49, 224, 175, 138, 80, 215, 198, 54, 59, 100, 9>> @@
    <<"SHA256", "GEZDGNBVGY3TQOJQ", 60202685>> :>
        <<53, 73, 114, 42, 176, 159, 217, 77, 88, 182, 143, 14, 198, 169, 140, 208, 218, 64, 43,
          41, 181, 10, 204, 251, 103, 107, 30, 181, 141, 143, 96, 96>> @@
    <<"SHA256", "GEZDGNBVGY3TQOJQ", 60202686>> :>
        <<126, 203, 254, 50, 206, 146, 87, 240, 41, 24, 192, 49, 70, 3, 50, 183, 53, 113, 11, 107,
          75, 174, 226, 176, 28, 168, 203, 226, 86, 118, 237, 82>> @@
    <<"SHA256", "GEZDGNBVGY3TQOJQ", 60202687>> :>
        <<77, 157, 60, 251, 148, 244, 80, 254, 119, 140, 104, 108, 98, 57, 203, 67, 113, 205, 169,
          152, 91, 46, 116, 88, 160, 17, 3, 249, 79, 130, 75, 253>> @@
    <<"SHA256", "GEZDGNBVGY3TQOJQ", 60202688>> :>
        <<134, 56, 87, 241, 36, 50, 121, 118, 58, 255, 94, 167, 253, 20, 33, 90, 89, 63, 210, 1,
          79, 59, 104, 122, 178, 156, 249, 164, 201, 232, 0, 191>> @@
    <<"SHA256", "GEZDGNBVGY3TQOJQ", 30101337>> :>
        <<173, 50, 168, 165, 60, 196, 213, 152, 86, 197, 213, 141, 22, 8, 91, 252, 64, 160, 21,
          130, 140, 247, 187, 44, 245, 64, 204, 85, 216, 131, 18, 20>> @@
    <<"SHA256", "GEZDGNBVGY3TQOJQ", 30101338>> :>
        <<116, 95, 183, 70, 253, 142, 86, 232, 171, 80, 129, 128, 53, 108, 160, 206, 255, 245, 3,
          214, 108, 112, 115, 207, 174, 135, 10, 194, 183, 176, 246, 193>> @@
    <<"SHA256", "GEZDGNBVGY3TQOJQ", 30101339>> :>
        <<175, 27, 22, 227, 245, 48, 119, 174, 29, 183, 162, 215, 195, 44, 66, 109, 9, 8, 193, 76,
          227, 79, 86, 205, 226, 99, 99, 56, 58, 113, 40, 249>> @@
    <<"SHA256", "GEZDGNBVGY3TQOJQ", 30101340>> :>
        <<105, 97, 234, 2, 162, 202, 209, 135, 175, 157, 199, 77, 236, 8, 1, 42, 189, 126, 81,
          197, 157, 52, 245, 236, 213, 177, 162, 221, 132, 222, 83, 147>> @@
    <<"SHA256", "GEZDGNBVGY3TQOJQ", 30101341>> :>
        <<227, 28, 20, 97, 128, 59, 186, 238, 63, 172, 16, 119, 91, 51, 221, 58, 43, 220, 39, 153,
          210, 4, 181, 95, 96, 91, 19, 175, 39, 128, 30, 15>> @@
    <<"SHA256", "GEZDGNBVGY3TQOJQ", 30101342>> :>
        <<45, 112, 251, 251, 188, 122, 181, 2, 192, 229, 113, 73, 213, 104, 228, 244, 159, 209,
          92, 218, 140, 91, 13, 71, 245, 149, 151, 167, 26, 211, 113, 165>> @@
    <<"SHA256", "GEZDGNBVGY3TQOJQ", 30101343>> :>
        <<217, 103, 69, 0, 229, 12, 206, 94, 161, 75, 187, 83, 13, 23, 161, 250, 66, 226, 80, 115,
          203, 239, 181, 105, 114, 104, 2, 113, 184, 144, 119, 38>> @@
    <<"SHA256", "GEZDGNBVGY3TQOJQ", 30101344>> :>
        <<183, 83, 45, 120, 71, 44, 80, 23, 134, 50, 237, 3, 51, 13, 131, 46, 143, 250, 199, 212,
          44, 151, 157, 95, 107, 194, 242, 2, 45, 32, 16, 119>> @@
    <<"SHA256", "GEZDGNBVGY3TQOJQ", 30101345>> :>
        <<243, 186, 61, 115, 187, 118, 31, 14, 15, 136, 130, 143, 178, 123, 71, 74, 19, 207, 31,
          69, 42, 20, 60, 197, 140, 230, 172, 129, 40, 33, 219, 77>> @@
    <<"SHA256", "GEZDGNBVGY3TQOJQ", 30101346>> :>
        <<114, 151, 217, 49, 110, 133, 104, 204, 99, 53, 0, 119, 20, 19, 60, 76, 117, 141, 67,
          203, 16, 57, 6, 238, 98, 109, 141, 92, 167, 250, 76, 26>> @@
    <<"SHA512", "JBSWY3DPEHPK3PXP", 60202679>> :>
        <<59, 250, 59, 12, 70, 84, 18, 103, 74, 96, 186, 140, 181, 161, 19, 71, 54, 84, 47, 247,
          1, 118, 77, 169, 158, 4, 10, 109, 234, 178, 54, 201, 243, 7, 95, 86, 50, 151, 48, 175,
          133, 89, 168, 52, 154, 97, 188, 128, 154, 96, 139, 81, 136, 254, 141, 239, 94, 94, 17,
          123, 126, 9, 75, 87>> @@
    <<"SHA512", "JBSWY3DPEHPK3PXP", 60202680>> :>
        <<203, 191, 4, 65, 166, 98, 214, 67, 90, 101, 30, 199, 206, 105, 94, 7, 36, 88, 185, 140,
          8, 88, 142, 222, 180, 181, 206, 70, 88, 169, 231, 1, 211, 164, 181, 170, 243, 251, 112,
          201, 125, 150, 113, 59, 244, 96, 197, 56, 8, 45, 71, 55, 97, 243, 135, 203, 218, 183, 9,
          43, 226, 164, 39, 195>> @@
    <<"SHA512", "JBSWY3DPEHPK3PXP", 60202681>> :>
        <<243, 127, 170, 9, 61, 231, 90, 198, 233, 105, 193, 186, 87, 203, 96, 216, 190, 94, 41,
          14, 211, 4, 66, 15, 218, 49, 29, 80, 220, 67, 130, 4, 58, 58, 39, 238, 215, 73, 240, 9,
          232, 145, 167, 196, 100, 48, 214, 26, 147, 164, 157, 79, 43, 96, 245, 240, 192, 46, 111,
          85, 17, 87, 153, 50>> @@
    <<"SHA512", "JBSWY3DPEHPK3PXP", 60202682>> :>
        <<81, 121, 44, 57, 99, 164, 121, 161, 244, 4, 197, 11, 120, 208, 154, 180, 67, 85, 48, 26,
          250, 55, 147, 59, 223, 209, 186, 110, 9, 175, 41, 252, 23, 146, 59, 20, 175, 172, 2, 246,
          124, 199, 109, 244, 128, 56, 244, 26, 87, 230, 173, 210, 15, 120, 95, 98, 98, 227, 66,
          113, 169, 40, 185, 154>> @@
    <<"SHA512", "JBSWY3DPEHPK3PXP", 60202683>> :>
        <<88, 95, 155, 190, 202, 198, 38, 126, 160, 215, 188, 177, 245, 118, 47, 176, 210, 229, 4,
          247, 75, 81, 197, 160, 196, 179, 140, 147, 238, 103, 192, 227, 39, 75, 214, 237, 154, 19,
          254, 2, 105, 208, 177, 118, 63, 98, 247, 147, 239, 0, 62, 14, 244, 148, 106, 42, 99, 181,
          253, 114, 101, 211, 78, 125>> @@
    <<"SHA512", "JBSWY3DPEHPK3PXP", 60202684>> :>
        <<144, 17, 96, 231, 68, 255, 103, 197, 9, 163, 141, 48, 24, 40, 23, 160, 38, 15, 108, 129,
          57, 55, 130, 84, 93, 60, 43, 227, 82, 187, 165, 147, 80, 34, 222, 117, 206, 71, 165, 56,
          151, 139, 52, 70, 141, 135, 85, 126, 202, 211, 207, 75, 93, 29, 222, 239, 33, 242, 222,
          33, 218, 2, 158, 143>> @@
    <<"SHA512", "JBSWY3DPEHPK3PXP", 60202685>> :>
        <<180, 9, 169, 124, 64, 122, 190, 61, 159, 17, 3, 92, 72, 95, 243, 249, 88, 33, 230, 5,
          45, 125, 153, 7, 180, 223, 145, 183, 175, 106, 100, 152, 84, 198, 85, 124, 54, 51, 77, 1,
          56, 123, 196, 144, 230, 178, 45, 9, 101, 221, 18, 171, 41, 173, 20, 172, 100, 202, 82,
          105, 165, 136, 158, 80>> @@
    <<"SHA512", "JBSWY3DPEHPK3PXP", 60202686>> :>
        <<77, 128, 224, 118, 214, 9, 106, 207, 81, 55, 2, 73, 8, 148, 135, 134, 70, 15, 1, 68,
          189, 122, 234, 237, 119, 123, 200, 209, 203, 141, 178, 184, 162, 90, 158, 36, 59, 130,
          134, 25, 46, 29, 99, 78, 197, 167, 84, 248, 46, 208, 208, 185, 99, 63, 69, 202, 134, 209,
          175, 166, 139, 134, 165, 43>> @@
    <<"SHA512", "JBSWY3DPEHPK3PXP", 60202687>> :>
        <<253, 211, 227, 200, 181, 120, 7, 54, 136, 125, 159, 38, 52, 22, 15, 19, 163, 230, 35, 7,
          154, 221, 210, 73, 126, 122, 13, 238, 158, 192, 62, 166, 68, 9, 9, 51, 87, 181, 175, 56,
          203, 28, 234, 32, 103, 205, 128, 199, 193, 72, 54, 238, 12, 210, 124, 72, 7, 144, 134, 85,
          90, 153, 129, 68>> @@
    <<"SHA512", "JBSWY3DPEHPK3PXP", 60202688>> :>
        <<51, 38, 195, 218, 129, 83, 119, 112, 141, 206, 18, 22, 68, 34, 216, 142, 230, 140, 128,
          70, 35, 241, 202, 232, 37, 97, 142, 150, 47, 225, 252, 197, 73, 225, 36, 0, 169, 136, 253,
          177, 111, 207, 196, 105, 78, 168, 113, 181, 58, 249, 242, 211, 31, 147, 156, 199, 17, 44,
          241, 6, 163, 247, 157, 21>> @@
    <<"SHA512", "JBSWY3DPEHPK3PXP", 30101337>> :>
        <<215, 84, 48, 6, 123, 40, 219, 197, 242, 173, 115, 72, 155, 172, 93, 52, 57, 132, 40, 79,
          227, 137, 106, 120, 128, 63, 24, 235, 85, 44, 6, 68, 172, 151, 123, 133, 34, 193, 101,
          214, 155, 11, 201, 111, 178, 35, 54, 253, 129, 233, 37, 255, 250, 131, 87, 65, 105, 14,
          251, 0, 69, 61, 76, 169>> @@
    <<"SHA512", "JBSWY3DPEHPK3PXP", 30101338>> :>
        <<177, 226, 186, 245, 118, 230, 167, 51, 109, 234, 108, 48, 137, 94, 109, 12, 73, 164,
          250, 214, 173, 204, 160, 32, 110, 92, 18, 203, 57, 21, 8, 171, 253, 160, 190, 169, 155,
          33, 200, 57, 158, 110, 184, 33, 161, 205, 188, 222, 18, 232, 106, 16, 242, 142, 111, 63,
          93, 150, 150, 238, 32, 155, 175, 136>> @@
    <<"SHA512", "JBSWY3DPEHPK3PXP", 30101339>> :>
        <<7, 29, 227, 187, 151, 149, 92, 121, 182, 50, 29, 18, 85, 75, 205, 80, 150, 250, 90, 19,
          40, 237, 20, 84, 184, 153, 130, 15, 58, 239, 13, 188, 125, 201, 231, 158, 15, 15, 114, 22,
          155, 222, 168, 166, 34, 9, 247, 162, 182, 116, 123, 145, 101, 195, 75, 118, 0, 65, 155,
          96, 8, 12, 120, 113>> @@
    <<"SHA512", "JBSWY3DPEHPK3PXP", 30101340>> :>
        <<95, 174, 219, 200, 155, 135, 82, 162, 219, 56, 203, 149, 86, 89, 123, 228, 9, 103, 237,
          128, 32, 130, 187, 219, 185, 16, 125, 139, 229, 88, 4, 17, 253, 152, 127, 3, 255, 166,
          223, 240, 248, 94, 94, 174, 171, 247, 32, 149, 212, 178, 244, 200, 210, 80, 42, 242, 132,
          212, 191, 207, 18, 103, 54, 92>> @@
    <<"SHA512", "JBSWY3DPEHPK3PXP", 30101341>> :>
        <<64, 132, 138, 34, 113, 169, 87, 91, 58, 139, 126, 145, 133, 231, 71, 227, 195, 67, 232,
          159, 85, 11, 221, 208, 44, 230, 167, 25, 115, 143, 209, 196, 250, 172, 231, 7, 49, 131,
          64, 224, 217, 89, 202, 28, 38, 115, 51, 76, 85, 83, 21, 189, 242, 18, 115, 84, 16, 133,
          30, 222, 22, 189, 54, 136>> @@
    <<"SHA512", "JBSWY3DPEHPK3PXP", 30101342>> :>
        <<131, 156, 119, 61, 21, 193, 73, 33, 124, 65, 206, 79, 123, 179, 86, 59, 120, 173, 218,
          137, 161, 249, 166, 155, 185, 74, 71, 115, 121, 108, 129, 224, 242, 203, 221, 114, 119,
          39, 1, 115, 4, 236, 33, 140, 179, 49, 165, 156, 91, 206, 242, 1, 53, 198, 21, 164, 206,
          154, 191, 227, 141, 247, 48, 33>> @@
    <<"SHA512", "JBSWY3DPEHPK3PXP", 30101343>> :>
        <<242, 26, 224, 188, 74, 15, 223, 63, 85, 209, 69, 202, 145, 202, 213, 120, 228, 213, 121,
          239, 85, 3, 159, 14, 73, 65, 169, 240, 86, 190, 179, 163, 228, 151, 186, 189, 223, 146,
          30, 86, 242, 245, 186, 251, 184, 106, 12, 18, 204, 205, 244, 219, 149, 118, 167, 248, 140,
          42, 102, 166, 216, 131, 177, 137>> @@
    <<"SHA512", "JBSWY3DPEHPK3PXP", 30101344>> :>
        <<25, 87, 155, 182, 104, 148, 42, 175, 152, 1, 172, 111, 27, 7, 135, 107, 44, 31, 103,
          184, 120, 164, 30, 205, 110, 172, 169, 105, 47, 201, 6, 85, 240, 152, 73, 114, 33, 166,
          154, 242, 54, 96, 16, 107, 35, 97, 87, 124, 9, 195, 112, 25, 163, 229, 248, 77, 120, 138,
          253, 139, 35, 195, 70, 178>> @@
    <<"SHA512", "JBSWY3DPEHPK3PXP", 30101345>> :>
        <<33, 119, 122, 65, 147, 178, 202, 174, 162, 135, 14, 137, 63, 208, 79, 99, 134, 51, 117,
          62, 72, 14, 1, 81, 231, 22, 168, 253, 57, 36, 229, 111, 25, 77, 68, 171, 11, 216, 54, 206,
          90, 17, 149, 150, 43, 106, 22, 177, 13, 2, 55, 255, 186, 33, 241, 57, 172, 131, 189, 156,
          25, 5, 84, 139>> @@
    <<"SHA512", "JBSWY3DPEHPK3PXP", 30101346>> :>
        <<53, 39, 252, 20, 58, 8, 93, 198, 244, 37, 140, 48, 95, 33, 221, 140, 153, 152, 203, 107,
          229, 6, 18, 181, 24, 74, 102, 95, 79, 206, 235, 224, 215, 51, 244, 95, 249, 251, 170, 135,
          39, 227, 125, 207, 224, 156, 5, 2, 165, 206, 58, 228, 81, 89, 233, 216, 70, 195, 85, 33,
          61, 183, 33, 119>> @@
    <<"SHA512", "GEZDGNBVGY3TQOJQ", 60202679>> :>
        <<235, 215, 158, 215, 19, 8, 105, 140, 61, 41, 166, 23, 10, 63, 25, 168, 119, 118, 148,
          155, 53, 254, 236, 140, 225, 13, 69, 121, 200, 138, 221, 108, 159, 26, 126, 104, 20, 29,
          26, 182, 153, 51, 239, 144, 14, 180, 15, 69, 250, 182, 236, 105, 222, 105, 178, 222, 249,
          209, 208, 159, 14, 187, 37, 41>> @@
    <<"SHA512", "GEZDGNBVGY3TQOJQ", 60202680>> :>
        <<59, 149, 216, 59, 18, 86, 55, 122, 32, 224, 12, 255, 189, 195, 47, 129, 123, 109, 218,
          100, 183, 17, 32, 33, 119, 28, 73, 187, 83, 71, 231, 245, 6, 230, 143, 165, 128, 209, 252,
          38, 150, 20, 248, 30, 254, 158, 243, 195, 239, 152, 41, 9, 94, 50, 19, 63, 198, 255, 106,
          221, 208, 248, 217, 87>> @@
    <<"SHA512", "GEZDGNBVGY3TQOJQ", 60202681>> :>
        <<36, 141, 247, 138, 68, 144, 196, 182, 139, 53, 191, 116, 154, 56, 206, 128, 32, 120,
          169, 202, 99, 144, 198, 22, 182, 136, 125, 253, 121, 156, 110, 32, 15, 197, 155, 229, 89,
          122, 114, 27, 127, 147, 88, 111, 55, 167, 197, 165, 47, 19, 136, 203, 101, 156, 139, 184,
          172, 210, 25, 163, 57, 106, 172, 20>> @@
    <<"SHA512", "GEZDGNBVGY3TQOJQ", 60202682>> :>
        <<195, 53, 55, 247, 40, 97, 48, 68, 205, 148, 51, 82, 137, 138, 25, 188, 132, 157, 128,
          221, 187, 3, 126, 77, 207, 80, 179, 140, 79, 192, 91, 120, 245, 74, 216, 60, 223, 88, 149,
          81, 26, 109, 251, 228, 216, 114, 166, 132, 57, 147, 81, 144, 138, 125, 10, 58, 221, 159,
          249, 220, 65, 54, 247, 191>> @@
    <<"SHA512", "GEZDGNBVGY3TQOJQ", 60202683>> :>
        <<5, 119, 41, 246, 126, 151, 132, 212, 228, 74, 89, 156, 76, 89, 52, 165, 175, 26, 150,
          37, 80, 170, 196, 249, 161, 148, 150, 207, 86, 11, 58, 254, 241, 109, 27, 45, 218, 222,
          99, 157, 193, 28, 252, 104, 92, 33, 149, 90, 161, 165, 89, 7, 251, 45, 126, 119, 33, 177,
          174, 140, 132, 11, 77, 84>> @@
    <<"SHA512", "GEZDGNBVGY3TQOJQ", 60202684>> :>
        <<230, 56, 114, 206, 114, 127, 163, 27, 80, 176, 192, 118, 48, 232, 74, 234, 142, 9, 224,
          90, 207, 45, 199, 76, 111, 18, 229, 245, 25, 254, 106, 110, 196, 131, 50, 59, 183, 116,
          73, 40, 230, 248, 73, 168, 53, 79, 75, 168, 164, 62, 191, 0, 57, 152, 244, 207, 135, 24,
          171, 248, 2, 157, 64, 137>> @@
    <<"SHA512", "GEZDGNBVGY3TQOJQ", 60202685>> :>
        <<74, 188, 210, 19, 195, 116, 94, 167, 223, 192, 230, 49, 238, 76, 13, 200, 28, 48, 94,
          245, 36, 0, 98, 183, 167, 26, 115, 196, 143, 96, 108, 25, 35, 103, 124, 184, 210, 98, 249,
          199, 77, 114, 163, 53, 151, 101, 121, 109, 109, 166, 215, 12, 18, 1, 29, 134, 151, 81,
          169, 186, 88, 48, 36, 91>> @@
    <<"SHA512", "GEZDGNBVGY3TQOJQ", 60202686>> :>
        <<195, 9, 91, 66, 201, 91, 97, 22, 224, 207, 88, 118, 49, 161, 87, 222, 163, 91, 244, 86,
          152, 205, 213, 140, 188, 192, 25, 136, 30, 146, 94, 50, 59, 175, 84, 201, 213, 88, 126,
          217, 220, 236, 89, 96, 184, 127, 28, 135, 117, 147, 132, 243, 127, 105, 100, 153, 108, 5,
          11, 184, 18, 14, 121, 24>> @@
    <<"SHA512", "GEZDGNBVGY3TQOJQ", 60202687>> :>
        <<175, 96, 175, 204, 253, 2, 223, 183, 145, 98, 216, 237, 169, 99, 155, 10, 162, 215, 111,
          179, 34, 38, 96, 227, 165, 108, 243, 108, 52, 128, 165, 75, 181, 71, 177, 131, 228, 194,
          84, 105, 30, 125, 214, 117, 253, 35, 164, 196, 9, 159, 45, 58, 232, 150, 113, 200, 126,
          184, 56, 161, 151, 117, 149, 159>> @@
    <<"SHA512", "GEZDGNBVGY3TQOJQ", 60202688>> :>
        <<223, 54, 38, 134, 69, 99, 55, 134, 47, 249, 115, 227, 122, 157, 196, 59, 144, 80, 226,
          222, 62, 193, 140, 210, 25, 93, 54, 162, 98, 136, 3, 122, 190, 183, 95, 16, 108, 179, 223,
          202, 131, 97, 43, 231, 151, 32, 92, 18, 105, 134, 14, 79, 148, 145, 67, 120, 51, 246, 246,
          173, 16, 219, 249, 229>> @@
    <<"SHA512", "GEZDGNBVGY3TQOJQ", 30101337>> :>
        <<169, 81, 243, 65, 205, 224, 55, 165, 200, 160, 38, 34, 121, 168, 183, 8, 22, 29, 123,
          243, 11, 173, 253, 103, 210, 230, 246, 23, 78, 209, 172, 241, 84, 230, 163, 242, 78, 241,
          144, 13, 56, 190, 147, 240, 88, 177, 105, 74, 86, 12, 248, 56, 217, 100, 36, 237, 162,
          249, 170, 235, 216, 34, 9, 24>> @@
    <<"SHA512", "GEZDGNBVGY3TQOJQ", 30101338>> :>
        <<158, 207, 191, 170, 122, 163, 216, 24, 58, 39, 9, 71, 222, 23, 206, 88, 46, 236, 235,
          203, 46, 35, 126, 18, 195, 34, 9, 205, 174, 137, 132, 235, 148, 202, 66, 243, 94, 252, 50,
          63, 65, 246, 149, 62, 255, 19, 146, 221, 164, 79, 207, 105, 30, 96, 217, 111, 208, 254,
          91, 138, 101, 230, 1, 238>> @@
    <<"SHA512", "GEZDGNBVGY3TQOJQ", 30101339>> :>
        <<245, 188, 195, 35, 42, 231, 49, 51, 189, 179, 221, 152, 187, 22, 9, 113, 180, 185, 253,
          76, 222, 173, 12, 224, 219, 116, 155, 197, 242, 54, 53, 14, 48, 172, 83, 55, 250, 230,
          236, 202, 179, 141, 159, 238, 116, 251, 96, 78, 78, 234, 19, 237, 149, 153, 73, 121, 110,
          156, 88, 239, 214, 117, 179, 23>> @@
    <<"SHA512", "GEZDGNBVGY3TQOJQ", 30101340>> :>
        <<101, 210, 41, 121, 201, 159, 207, 69, 217, 103, 131, 32, 140, 233, 95, 247, 126, 229,
          248, 30, 230, 4, 110, 217, 127, 97, 27, 209, 171, 64, 24, 92, 27, 55, 84, 60, 164, 102,
          51, 137, 5, 174, 13, 16, 173, 119, 37, 123, 147, 175, 55, 168, 4, 4, 187, 63, 189, 50, 37,
          63, 210, 179, 235, 241>> @@
    <<"SHA512", "GEZDGNBVGY3TQOJQ", 30101341>> :>
        <<217, 31, 84, 114, 23, 42, 162, 4, 245, 214, 107, 42, 152, 54, 115, 78, 11, 52, 100, 47,
          144, 100, 51, 116, 30, 181, 235, 115, 203, 134, 165, 58, 237, 139, 127, 223, 45, 41, 105,
          60, 36, 196, 114, 39, 133, 199, 190, 117, 136, 214, 126, 38, 129, 231, 159, 136, 125, 99,
          241, 159, 118, 215, 30, 188>> @@
    <<"SHA512", "GEZDGNBVGY3TQOJQ", 30101342>> :>
        <<250, 173, 156, 140, 24, 158, 248, 24, 84, 187, 249, 217, 36, 244, 30, 36, 211, 31, 166,
          96, 162, 112, 64, 1, 196, 194, 88, 52, 141, 254, 193, 254, 240, 53, 25, 210, 189, 93, 187,
          128, 5, 128, 11, 23, 164, 160, 143, 205, 48, 147, 82, 153, 82, 66, 44, 186, 213, 18, 99,
          244, 236, 128, 85, 10>> @@
    <<"SHA512", "GEZDGNBVGY3TQOJQ", 30101343>> :>
        <<242, 237, 161, 221, 39, 28, 3, 129, 11, 87, 157, 88, 61, 167, 31, 4, 215, 136, 246, 238,
          250, 234, 42, 124, 48, 198, 137, 193, 171, 227, 129, 226, 217, 182, 68, 160, 100, 191,
          253, 91, 24, 241, 231, 246, 207, 167, 150, 35, 227, 74, 245, 23, 22, 16, 95, 68, 9, 238,
          156, 83, 121, 27, 35, 10>> @@
    <<"SHA512", "GEZDGNBVGY3TQOJQ", 30101344>> :>
        <<131, 138, 178, 39, 254, 89, 130, 155, 218, 84, 186, 168, 99, 24, 86, 248, 236, 28, 212,
          157, 226, 189, 68, 205, 131, 240, 123, 138, 87, 107, 165, 154, 186, 202, 90, 6, 66, 86,
          141, 132, 217, 252, 251, 104, 252, 155, 181, 182, 47, 247, 70, 204, 47, 8, 167, 2, 53, 17,
          226, 238, 168, 202, 100, 184>> @@
    <<"SHA512", "GEZDGNBVGY3TQOJQ", 30101345>> :>
        <<158, 210, 31, 107, 73, 28, 143, 118, 12, 255, 68, 168, 141, 140, 64, 210, 43, 253, 233,
          247, 40, 225, 124, 128, 205, 82, 147, 214, 100, 153, 86, 250, 186, 154, 187, 6, 234, 142,
          232, 235, 141, 194, 72, 255, 172, 18, 33, 112, 68, 128, 91, 167, 198, 167, 223, 188, 117,
          179, 15, 188, 131, 191, 247, 104>> @@
    <<"SHA512", "GEZDGNBVGY3TQOJQ", 30101346>> :>
        <<248, 54, 54, 157, 219, 77, 15, 29, 99, 221, 9, 38, 168, 92, 6, 39, 47, 220, 140, 202,
          82, 74, 192, 75, 229, 60, 148, 162, 84, 30, 204, 33, 82, 81, 61, 171, 178, 4, 7, 20, 34,
          119, 172, 114, 222, 225, 68, 125, 145, 231, 41, 135, 157, 91, 153, 29, 33, 105, 163, 146,
          173, 143, 130, 60>>

\* TOTPProvider.__init__
TOTPProvider(secret, interval, digits, algorithm) ==
    [secret |-> secret, interval |-> interval, digits |-> digits,
     algorithm |-> upper(algorithm)]

\* a call's outcome: the exception it raised, or "none" and its value
Returned(v) == [exc |-> "none", val |-> v]
Raised(e) == [exc |-> e, val |-> None]

\* _get_hmac
get_hmac(self, counter) ==
    IF self.secret \notin Base32Secrets THEN Raised("binascii.Error")
    ELSE IF counter < 0 THEN Raised("struct.error")
    ELSE IF self.algorithm \notin {"SHA1", "SHA256", "SHA512"} THEN Raised("ValueError")
    ELSE Returned(HmacTable[<<self.algorithm, self.secret, counter>>])

\* a counter that rounds to the nearest step
counter_of_nearest(self, for_time) == (for_time + self.interval \div 2) \div self.interval

\* generate_otp: counter = for_time // self.interval
counter_of(self, for_time) == for_time \div self.interval

\* generate_otp
generate_otp(self, for_time, now) ==
    LET hmac_digest == get_hmac(self, counter_of(self, IF for_time = Nothing THEN now
                                                       ELSE for_time[1]))
    IN  IF hmac_digest.exc # "none" THEN hmac_digest
        ELSE LET d == hmac_digest.val
                 offset == d[Len(d)] % 16
                 binary == (d[offset + 1] % 128) * 16777216 + d[offset + 2] * 65536
                           + d[offset + 3] * 256 + d[offset + 4]
             IN  Returned(zfill(IntStr(binary % (10 ^ self.digits)), self.digits))

\* a drift window that only looks forward
window_offsets_forward(window) == 0 .. window

\* a drift window one step wider on each side
window_offsets_wider(window) == -(window + 1) .. (window + 1)

\* verify: range(-window, window + 1)
window_offsets(window) == -window .. window

RECURSIVE verify_loop(_, _, _, _, _)
\* verify: the for loop, from offset on
verify_loop(self, otp, offset, window, current_time) ==
    IF offset \notin window_offsets(window) THEN Returned(FALSE)
    ELSE LET g == generate_otp(self, Some(current_time + offset * self.interval),
                               current_time)
         IN  IF g.exc # "none" THEN g
             ELSE IF g.val = otp THEN Returned(TRUE)
             ELSE verify_loop(self, otp, offset + 1, window, current_time)

\* verify
verify(self, otp, window, now) == verify_loop(self, otp, -window, window, now)

\* the timestamps up to MaxWindow + 1 steps away from now
NearTimes(self, now) ==
    { now + k * self.interval : k \in -(MaxWindow + 1) .. (MaxWindow + 1) }

\* the codes a user may type: those of the near timestamps, and a wrong one
CodeSet(self, now) ==
    { generate_otp(self, Some(t), now).val :
        t \in { u \in NearTimes(self, now) : generate_otp(self, Some(u), now).exc = "none" } }
    \cup { <<"0", "0", "0", "0", "0", "0">> }

UtilCall(op, args, r) ==
    /\ last' = [op |-> op, args |-> args, exc |-> r.exc]
    /\ ret' = IF r.exc = "none" THEN Some(r.val) ELSE Nothing
    /\ UNCHANGED <<experity, manager, portal, log, pc, loop>>

\* totp = TOTPProvider(secret, interval, digits, algorithm)
NewTotp ==
    /\ \E secret \in SecretSet, interval \in IntervalSet, digits \in DigitsSet,
          algorithm \in AlgorithmSet :
         /\ totp' = Some(TOTPProvider(secret, interval, digits, algorithm))
         /\ last' = [op |-> "TOTPProvider",
                     args |-> <<secret, interval, digits, algorithm>>, exc |-> "none"]
    /\ ret' = Nothing
    /\ UNCHANGED <<experity, manager, portal, log, pc, loop, clock, sqlite>>

\* totp.generate_otp() and totp.generate_otp(for_time)
GenerateOtp ==
    /\ totp # Nothing
    /\ \E for_time \in {Nothing, Some(-1)} \cup { Some(t) : t \in NearTimes(totp[1], clock) } :
         UtilCall("generate_otp", <<for_time>>, generate_otp(totp[1], for_time, clock))
    /\ UNCHANGED <<totp, clock, sqlite>>

\* totp.verify(otp, window)
Verify ==
    /\ totp # Nothing
    /\ \E otp \in CodeSet(totp[1], clock), window \in 0 .. MaxWindow :
         UtilCall("verify", <<otp, window>>, verify(totp[1], otp, window, clock))
    /\ UNCHANGED <<totp, clock, sqlite>>

\* time passes before the next call
Tick ==
    /\ \E t \in ClockValues : t > clock /\ clock' = t
    /\ last' = NoCall
    /\ ret' = Nothing
    /\ UNCHANGED <<experity, manager, portal, log, pc, loop, totp, sqlite>>

InitOtp ==
    /\ experity = ExperityInit
    /\ manager = ManagerInit
    /\ portal = PortalInit
    /\ log = << >>
    /\ last = NoCall
    /\ pc = "idle"
    /\ loop = NoLoop
    /\ totp = Nothing
    /\ clock = ClockStart
    /\ sqlite = Nothing
    /\ ret = Nothing

NextOtp == NewTotp \/ GenerateOtp \/ Verify \/ Tick

SpecOtp == InitOtp /\ [][NextOtp]_vars

----------------------------------------------------------------------------
(* utils/report_dates.py: get_months_between called on its own *)

\* the dates passed in: first, middle and last days of months at both ends
\* and in the middle of the years YearFrom..YearTo
YearFrom == 2023
YearTo == 2025
DateSet ==
    { DateText(y, m, d) : y \in YearFrom..YearTo, m \in {1, 2, 12}, d \in {1, 15, 28} }
    \cup { DateText(y, m, 31) : y \in YearFrom..YearTo, m \in {1, 12} }

\* months = get_months_between(a, b), once
GetMonthsBetween ==
    /\ last = NoCall
    /\ \E a, b \in DateSet :
         UtilCall("get_months_between", <<a, b>>, Returned(get_months_between(a, b)))
    /\ UNCHANGED <<totp, clock, sqlite>>

InitDates ==
    /\ experity = ExperityInit
    /\ manager = ManagerInit
    /\ portal = PortalInit
    /\ log = << >>
    /\ last = NoCall
    /\ pc = "idle"
    /\ loop = NoLoop
    /\ UtilsUnused

SpecDates == InitDates /\ [][GetMonthsBetween]_vars

----------------------------------------------------------------------------
(* utils/sqlite_manager.py: SQLiteManager called from several threads *)

\* the threads of the process that share one manager
MaxThreads == 2
Threads == 1..MaxThreads

\* holders of a lock: nobody, a thread of Threads, or another process
Free == 0
OtherProcess == -1

SqliteOps == { "access", "execute", "executemany", "transaction" }

\* what a statement of a block can create: a table (CREATE TABLE, which
\* sqlite3 runs without opening a transaction) and a row (INSERT, before
\* which sqlite3 opens one)
Items == { "table", "row" }

\* a thread that is not calling the manager
Outside == [at |-> "idle", op |-> "none", exc |-> "none", conn |-> "none"]

\* SQLiteManager.__init__: a new threading.Lock, the lock file exists
SQLiteManager ==
    [thread_lock |-> Free, file_lock |-> Free, thread |-> [t \in Threads |-> Outside],
     committed |-> {}, pending |-> {}, before |-> {}, work |-> {}]

\* the manager
db == sqlite[1]

\* a lock that anyone may take at any time
LockIgnored(holder) == TRUE

\* threading.Lock.acquire() and flock(LOCK_EX) block until the lock is free
LockFree(holder) == holder = Free

\* the manager after thread t took a step of its call
Moved(t, at, exc, conn, thread_lock, file_lock) ==
    [db EXCEPT !.thread_lock = thread_lock, !.file_lock = file_lock,
               !.thread[t] = [at |-> at, op |-> db.thread[t].op, exc |-> exc, conn |-> conn]]

\* thread t takes a step of its call that leaves the database as it is
Step(t, at, exc, conn, thread_lock, file_lock) ==
    /\ sqlite' = Some(Moved(t, at, exc, conn, thread_lock, file_lock))
    /\ UNCHANGED <<experity, manager, portal, log, last, pc, loop, totp, clock, ret>>

\* thread t takes a step of its call that changes the database
Write(t, at, exc, committed, pending, work) ==
    /\ sqlite' = Some([Moved(t, at, exc, "open", db.thread_lock, db.file_lock) EXCEPT
                          !.committed = committed, !.pending = pending, !.work = work])
    /\ UNCHANGED <<experity, manager, portal, log, last, pc, loop, totp, clock, ret>>

\* thread t has a new connection: no transaction is open, the block has done
\* nothing yet
Entered(t, at, exc) ==
    /\ sqlite' = Some([Moved(t, at, exc, "open", db.thread_lock, db.file_lock)
                          EXCEPT !.before = db.committed, !.work = {}, !.pending = {}])
    /\ UNCHANGED <<experity, manager, portal, log, last, pc, loop, totp, clock, ret>>

\* cur.execute(sql) on a connection with isolation_level="DEFERRED": sqlite3
\* opens a transaction before an INSERT; a CREATE TABLE joins the open
\* transaction, and with none open it is committed at once
Execute(item, committed, pending) ==
    IF item = "row" \/ pending # {}
    THEN [committed |-> committed, pending |-> pending \cup {item}]
    ELSE [committed |-> committed \cup {item}, pending |-> pending]

\* a thread calls access(), execute(), executemany() or transaction()
SqliteCall(t) ==
    /\ db.thread[t].at = "idle"
    /\ \E op \in SqliteOps :
         sqlite' = Some([db EXCEPT !.thread[t] = [Outside EXCEPT !.at = "acquire", !.op = op]])
    /\ UNCHANGED <<experity, manager, portal, log, last, pc, loop, totp, clock, ret>>

\* access: with self._thread_lock
AcquireThreadLock(t) ==
    /\ db.thread[t].at = "acquire"
    /\ LockFree(db.thread_lock)
    /\ Step(t, "open", "none", "none", t, db.file_lock)

\* access: with open(self.lock_path, "r+") as lockf  (the file may be gone)
OpenLockFile(t) ==
    /\ db.thread[t].at = "open"
    /\ \/ Step(t, "flock", "none", "none", db.thread_lock, db.file_lock)
       \/ Step(t, "release", "OSError", "none", db.thread_lock, db.file_lock)

\* access: lock_file(lockf)
LockFile(t) ==
    /\ db.thread[t].at = "flock"
    /\ \/ /\ LockFree(db.file_lock)
          /\ Step(t, "connect", "none", "none", db.thread_lock, t)
       \/ Step(t, "release", "OSError", "none", db.thread_lock, db.file_lock)

\* access: sqlite3.connect(...) and the four PRAGMA statements; connect may
\* raise before conn is bound, a PRAGMA after it
Connect(t) ==
    /\ db.thread[t].at = "connect"
    /\ \/ Entered(t, "inside", "none")
       \/ Step(t, "unlock", "OperationalError", "none", db.thread_lock, db.file_lock)
       \/ Entered(t, "unlock", "OperationalError")

\* one statement of the body of the with block: cur.execute(...), a row of
\* cur.executemany(...), a statement of fn(conn) or of the caller's block
Statement(t) ==
    /\ db.thread[t].at = "inside"
    /\ \E item \in Items \ (db.committed \cup db.pending) :
         LET r == Execute(item, db.committed, db.pending)
         IN  Write(t, "inside", "none", r.committed, r.pending, db.work \cup {item})

\* the body of the with block ends: it returns, or it raises and the except
\* branch calls conn.rollback()
Body(t) ==
    /\ db.thread[t].at = "inside"
    /\ \/ Step(t, "commit", "none", "open", db.thread_lock, db.file_lock)
       \/ Write(t, "unlock", "Error", db.committed, {}, db.work)

\* access: conn.commit(); a failure goes through rollback()
CommitConn(t) ==
    /\ db.thread[t].at = "commit"
    /\ \/ Write(t, "unlock", "none", db.committed \cup db.pending, {}, db.work)
       \/ Write(t, "unlock", "OperationalError", db.committed, {}, db.work)

\* access: finally: conn.close() (its failure is passed over), unlock_file(lockf),
\* which may raise
Unlock(t) ==
    /\ db.thread[t].at = "unlock"
    /\ LET conn == IF db.thread[t].conn = "open" THEN "closed" ELSE db.thread[t].conn
       IN  \/ Step(t, "release", db.thread[t].exc, conn, db.thread_lock, Free)
           \/ Step(t, "release", "OSError", conn, db.thread_lock, db.file_lock)

\* access: the with blocks end: the lock file is closed, which drops a file
\* lock still held, and the thread lock is released
ReleaseThreadLock(t) ==
    /\ db.thread[t].at = "release"
    /\ Step(t, IF db.thread[t].exc = "none" THEN "returned" ELSE "raised",
            db.thread[t].exc, db.thread[t].conn,
            IF db.thread_lock = t THEN Free ELSE db.thread_lock,
            IF db.file_lock = t THEN Free ELSE db.file_lock)

\* the caller goes on after the call returned or raised
SqliteDone(t) ==
    /\ db.thread[t].at \in {"returned", "raised"}
    /\ sqlite' = Some([db EXCEPT !.thread[t] = Outside])
    /\ UNCHANGED <<experity, manager, portal, log, last, pc, loop, totp, clock, ret>>

\* another process takes or drops the file lock
OtherProcessLocks ==
    /\ \/ db.file_lock = Free /\ sqlite' = Some([db EXCEPT !.file_lock = OtherProcess])
       \/ db.file_lock = OtherProcess /\ sqlite' = Some([db EXCEPT !.file_lock = Free])
    /\ UNCHANGED <<experity, manager, portal, log, last, pc, loop, totp, clock, ret>>

\* after db = SQLiteManager("python.db")
InitSqlite ==
    /\ experity = ExperityInit
    /\ manager = ManagerInit
    /\ portal = PortalInit
    /\ log = << >>
    /\ last = NoCall
    /\ pc = "idle"
    /\ loop = NoLoop
    /\ totp = Nothing
    /\ clock = 0
    /\ sqlite = Some(SQLiteManager)
    /\ ret = Nothing

NextSqlite ==
    \/ \E t \in Threads :
         \/ SqliteCall(t) \/ AcquireThreadLock(t) \/ OpenLockFile(t) \/ LockFile(t)
         \/ Connect(t) \/ Statement(t) \/ Body(t) \/ CommitConn(t) \/ Unlock(t) \/ ReleaseThreadLock(t)
         \/ SqliteDone(t)
    \/ OtherProcessLocks

SpecSqlite == InitSqlite /\ [][NextSqlite]_vars

----------------------------------------------------------------------------
(* Properties *)

\* the positions in a log of the events of one kind
Events(l, op) == { i \in 1..Len(l) : l[i].op = op }
Count(l, op) == Cardinality(Events(l, op))

\* the calls of the driver's try block that re-raise
DataOps == { "clinic_data", "report_data", "month_range_report", "month_report",
             "date_range_report" }

C1_Step ==
    /\ last'.op = "close_browser" => last.op = "logout"
    /\ last.op = "logout" => last'.op = "close_browser"
    /\ last'.op = "logout" => last.op = "collect_exception" \/ last.exc = "none"
    /\ (last.op \in DataOps /\ last.exc # "none") => last'.op = "collect_exception"
    /\ last.op = "collect_exception" => last'.op = "logout"

C1_State ==
    /\ pc = "crashed" => last.op = "construct"
    /\ pc = "done" => last.op = "close_browser"
    /\ pc \notin {"done", "crashed"} => ENABLED NextMain

\* C1: in every run of the main driver, whatever steps fail, the driver goes on
\* until logout() has been called and then close_browser(), in that order and
\* with nothing between them; a call of the try block that raised is followed
\* by collect_exception(), which is followed by logout().
C1_TeardownOrder == []C1_State /\ [][C1_Step]_vars

\* C1 witness: a data call raised, collect_exception() ran, logout() is next
C1_Witness ==
    /\ pc = "logout"
    /\ last.op = "collect_exception"
    /\ Count(log, "screenshot") > 0

\* the facade calls whose except clause only logs
QuietOps == { "login", "logout", "close_browser", "collect_exception" }

\* C2: login, logout, close_browser and collect_exception return normally
\* whatever underlying step failed; an exception raised below them has been
\* logged by the time they return.
C2_NeverPropagate ==
    last.op \in QuietOps =>
        /\ last.exc = "none"
        /\ Count(log, "raise") > 0 => log[Len(log)].op = "error_logged"

\* C2 witness: login() returned after the one-time-code step failed
C2_Witness ==
    /\ last.op = "login"
    /\ Count(log, "generate_otp") > 0
    /\ Count(log, "raise") > 0
    /\ last.exc = "none"

\* the facade calls whose except clause logs and re-raises
ReraiseOps == { "clinic_data", "report_data", "date_range_report", "month_range_report" }

\* an underlying step of the call failed: an exception was raised below the
\* facade, or a parameter-configuration step did not set its fields
StepFailed(l) ==
    \/ Count(l, "raise") > 0
    \/ \E i \in Events(l, "config") : ~l[i].arg[3]

\* C3: clinic_data, report_data, date_range_report and month_range_report raise
\* to their caller whenever an underlying step of the call failed, the
\* parameter configuration (select_dates, select_months) included.
C3_ReRaise == (last.op \in ReraiseOps /\ StepFailed(log)) => last.exc # "none"

\* C3, the part the code keeps: an exception raised below the facade call is
\* logged and leaves the call
C3_RaisedLeaves ==
    (last.op \in ReraiseOps /\ Count(log, "raise") > 0) =>
        /\ last.exc # "none"
        /\ log[Len(log)].op = "error_logged"

\* C3 witness: date_range_report returned normally, after running the report
\* and saving both files, although filling the date fields had failed
C3_Witness ==
    /\ last.op = "date_range_report"
    /\ last.exc = "none"
    /\ \E i \in Events(log, "config") : ~log[i].arg[3]
    /\ Count(log, "save") = 2

\* a navigate_page step to a page whose target is already the current page
C4_Step ==
    (pc = "idle" /\ last'.op = "navigate_page" /\ last'.args[1] \in DOMAIN pages
                /\ experity.current_page = pages[last'.args[1]]) =>
        /\ log' = << >>
        /\ last'.exc = "none"
        /\ UNCHANGED <<experity, manager, portal>>

\* navigate_page("report") twice in a row from the current state, under any
\* faults of the second call: when the first call returns, or leaves
\* current_page at the target, the second one adds no event and changes nothing,
\* so that the two calls issue one goto when the session was elsewhere
C4_TwoCalls ==
    \A F1, F2 \in Plans(NavRaising, NavQuiet) :
        LET w1 == navigate_page(World, "report", At(F1, "nav"))
            w2 == navigate_page(w1, "report", At(F2, "nav"))
        IN  (Ok(w1) \/ w1.experity.current_page = pages["report"]) =>
                /\ w2 = w1
                /\ Count(w2.log, "goto") =
                     IF experity.current_page = pages["report"] THEN 0 ELSE 1

\* C4: navigate_page to the page that is already current issues no navigation
\* and changes no session state; two consecutive navigate_page("report") calls
\* issue exactly one goto.
C4_NavigateIdempotent == [](log = << >> => C4_TwoCalls) /\ [][C4_Step]_vars

\* C4 witness: a second navigate_page("report") returned without any event
C4_Witness ==
    /\ last.op = "navigate_page"
    /\ last.args = <<"report">>
    /\ last.exc = "none"
    /\ log = << >>
    /\ experity.current_page = pages["report"]
    /\ experity.main_frame # None

\* the frame handles of the session
Frames(e) == { e.main_frame, e.nav_frame, e.report_frame }

\* C5: whenever current_page is not the report page, no frame handle is set.
C5_FramesOnlyOnReport ==
    experity.current_page # pages["report"] => Frames(experity) = { None }

\* C5 witness: navigate_page("clinic") returned on a session that had
\* resolved the frames of the report page, and the handles are still set
C5_Witness ==
    /\ last.op = "navigate_page"
    /\ last.args = <<"clinic">>
    /\ last.exc = "none"
    /\ experity.current_page = pages["clinic"]
    /\ Frames(experity) = { "Frame" }
    /\ portal.attached = {}

\* the submit click of run_report was attempted: it is logged, or the frame
\* handle it needs was never set
RunAttempted(l) ==
    \/ Count(l, "run") = 1
    \/ \E i \in Events(l, "raise") : l[i].arg = <<"AttributeError">>

\* the downloads that follow a run: the csv one whenever the run returned a
\* popup, the xlsx one whenever the csv file was saved
DownloadsAttempted(l) ==
    /\ (\E i \in Events(l, "run") : l[i].arg[1] > 0) => Count(l, "await_ready") >= 1
    /\ Count(l, "save") >= 1 => Count(l, "await_ready") = 2

\* a step of month_report's loop: the pass for the next label of the list, which
\* attempts the run and the downloads and ends normally, or, after the last
\* label, the normal return of month_report
C6_Step ==
    (pc = "loop" /\ loop.op = "month_report") =>
        IF loop.i <= Len(loop.items)
        THEN /\ last' = [op |-> "month_report_item",
                         args |-> <<loop.report_name, loop.items[loop.i]>>,
                         exc |-> "none"]
             /\ pc' = "loop"
             /\ loop' = [loop EXCEPT !.i = @ + 1]
             /\ RunAttempted(log')
             /\ DownloadsAttempted(log')
        ELSE /\ last' = [op |-> "month_report", args |-> <<loop.report_name>>,
                         exc |-> "none"]
             /\ pc' = loop.next

\* C6: month_report goes through every label of its list in order, whatever
\* passes fail at select_month, run or download: each pass attempts the run and
\* the downloads, no failure of a pass ends the loop or leaves month_report,
\* and inside the loop a next step is always possible.
C6_PartialFailureTolerant ==
    /\ []((pc = "loop" /\ loop.op = "month_report") => ENABLED NextBatch)
    /\ [][C6_Step]_vars

\* C6 witness: the second pass saved both files after the first pass had failed
\* at a download, leaving its popup open
C6_Witness ==
    /\ pc = "loop" /\ loop.op = "month_report" /\ loop.i = 3
    /\ last.op = "month_report_item"
    /\ portal.popups # {}
    /\ Count(log, "save") = 2

\* a step of month_range_report_monthly's loop
C7_Step ==
    (pc = "loop" /\ loop.op = "month_range_report_monthly") =>
        IF loop.i <= Len(loop.items)
        THEN LET label == loop.items[loop.i] IN
             /\ last' = [op |-> "month_range_report_monthly_item",
                         args |-> <<loop.report_name, label>>, exc |-> "none"]
             /\ pc' = "loop"
             /\ loop' = [loop EXCEPT !.i = @ + 1]
             /\ Count(log', "config") <= 1 /\ Count(log', "run") <= 1
             /\ \A k \in Events(log', "search") : log'[k].arg[1] = loop.report_name
             /\ \A k \in Events(log', "select") : log'[k].arg[1] = loop.report_title
             /\ \A k \in Events(log', "config") :
                    log'[k].arg[1] = "months" /\ log'[k].arg[2] = <<label, label>>
             /\ \A k \in Events(log', "save") :
                    log'[k].arg[1] = MonthRangeStem(loop.report_name, label, label)
        ELSE /\ last' = [op |-> "month_range_report_monthly",
                         args |-> <<loop.report_name>>, exc |-> "none"]
             /\ pc' = loop.next

\* C7: month_range_report_monthly calls month_range_report once for each label
\* of its list, in list order, with from == to == label; an exception of a call
\* (navigation, search and select included) is caught, the next label follows,
\* and the batch call returns normally.
C7_MonthlyOncePerLabel ==
    /\ []((pc = "loop" /\ loop.op = "month_range_report_monthly") => ENABLED NextBatch)
    /\ [][C7_Step]_vars

\* C7 witness: the call for the first of two labels failed at search_report
\* and the loop stands before the second label
C7_Witness ==
    /\ pc = "loop" /\ loop.op = "month_range_report_monthly"
    /\ loop.i = 2 /\ Len(loop.items) = 2
    /\ \E k \in Events(log, "search") : ~log[k].arg[2]
    /\ log[Len(log)].op = "error_logged"

\* the facade calls that download one report for a range
RangeOps == { "date_range_report", "month_range_report" }

\* the place of an event in the order search, select, parameter
\* configuration, run, download(csv), download(xlsx); 0 for the other events
Rank(e) ==
    CASE e.op = "search" -> 1
      [] e.op = "select" -> 2
      [] e.op = "config" -> 3
      [] e.op = "run" -> 4
      [] e.op \in {"export", "save"} -> IF e.arg[2] = "csv" THEN 5 ELSE 6
      [] OTHER -> 0

\* the steps are logged in rank order, each of the first four at most once
InStepOrder(l) ==
    \A i, j \in 1..Len(l) :
        (i < j /\ Rank(l[i]) > 0 /\ Rank(l[j]) > 0) =>
            /\ Rank(l[i]) <= Rank(l[j])
            /\ Rank(l[i]) <= 4 => Rank(l[i]) < Rank(l[j])

\* nothing starts after a step raised: only the handlers' log entries follow
StopsAtFailure(l) ==
    \A i \in Events(l, "raise") : \A j \in (i + 1)..Len(l) : l[j].op = "error_logged"

\* every step on the popup (waiting for the report, export, save, close)
\* comes after the run and uses the popup that this run returned
UsesPopupOfRun(l) ==
    /\ \A j \in Events(l, "await_ready") \cup Events(l, "export") \cup Events(l, "close") :
           \E i \in Events(l, "run") : i < j /\ l[i].arg[1] > 0 /\ l[j].arg[1] = l[i].arg[1]
    /\ \A j \in Events(l, "save") :
           \E i \in Events(l, "run") : i < j /\ l[i].arg[1] > 0 /\ l[j].arg[3].id = l[i].arg[1]

\* C8: date_range_report and month_range_report log their steps in the order
\* search, select, parameter configuration, run, download(csv), download(xlsx);
\* a step starts only after the one before it returned; the run is triggered
\* at most once, and once in a call that returns; both downloads use the popup
\* that run returned.
C8_StepOrder ==
    last.op \in RangeOps =>
        /\ InStepOrder(log)
        /\ StopsAtFailure(log)
        /\ UsesPopupOfRun(log)
        /\ Count(log, "run") <= 1
        /\ Count(log, "run") = 1 => Count(log, "config") = 1
        /\ last.exc = "none" =>
               /\ Count(log, "run") = 1
               /\ Count(log, "save") = 2
               /\ Count(log, "close") = 1

\* C8 witness: month_range_report went through all six steps, search and
\* select included, and returned
C8_Witness ==
    /\ last.op = "month_range_report"
    /\ last.exc = "none"
    /\ { Rank(log[i]) : i \in 1..Len(log) } \ {0} = 1..6

\* the steps month_report takes before its loop: search and select at most
\* once, in this order, and nothing of the per-label steps
C9_Open(l) ==
    /\ Count(l, "search") <= 1 /\ Count(l, "select") <= 1
    /\ InStepOrder(l)
    /\ \A i \in 1..Len(l) : Rank(l[i]) <= 2

\* one pass of month_report's loop for label: select_month(label) first, then
\* the run, download(csv) and download(xlsx) on the popup of that run, under
\* the file name of the label; no search, select or navigation
C9_Pass(l, report_name, label) ==
    /\ Len(l) >= 1 /\ l[1].op = "config"
    /\ l[1].arg[1] = "month" /\ l[1].arg[2] = <<label>>
    /\ Count(l, "config") = 1 /\ Count(l, "run") <= 1
    /\ Count(l, "search") = 0 /\ Count(l, "select") = 0 /\ Count(l, "goto") = 0
    /\ InStepOrder(l) /\ StopsAtFailure(l) /\ UsesPopupOfRun(l)
    /\ \A k \in Events(l, "save") : l[k].arg[1] = MonthStem(report_name, label)

C9_Step ==
    /\ (pc = "idle" /\ last'.op = "month_report") => C9_Open(log')
    /\ (pc = "loop" /\ loop.op = "month_report" /\ loop.i <= Len(loop.items)) =>
           /\ last'.op = "month_report_item"
           /\ loop'.i = loop.i + 1
           /\ C9_Pass(log', loop.report_name, loop.items[loop.i])

\* C9: month_report searches and selects at most once, before its loop; then,
\* for each label in list order, it performs select_month(label), run,
\* download(csv), download(xlsx), so that every run of the loop comes after the
\* select_month of its own label.
C9_MonthReportOrder == [][C9_Step]_vars

\* C9 witness: the second of two passes went through all its steps after a
\* call that had searched and selected once
C9_Witness ==
    /\ pc = "loop" /\ loop.op = "month_report" /\ loop.i = 3
    /\ last.op = "month_report_item"
    /\ { Rank(log[i]) : i \in 1..Len(log) } \ {0} = 3..6
    /\ experity.current_report_search = Some(loop.report_name)
    /\ experity.current_report_select = Some(loop.report_title)

\* a search_report or select_report step on the cache field it consults: a
\* call whose argument is the cached value touches nothing; any other call
\* acts on the portal and, when it returns, has cached its argument, while a
\* call that raises leaves the cache as it was
C10_Call(field, event) ==
    LET arg == last'.args[1] IN
    IF experity[field] = Some(arg)
    THEN /\ log' = << >>
         /\ last'.exc = "none"
         /\ UNCHANGED <<experity, manager, portal>>
    ELSE /\ log' # << >>
         /\ last'.exc = "none" =>
                /\ experity'[field] = Some(arg)
                /\ log' = << [op |-> event, arg |-> <<arg, TRUE>>] >>
         /\ last'.exc # "none" => experity'[field] = experity[field]

C10_Step ==
    /\ (pc = "idle" /\ last'.op = "search_report") =>
           C10_Call("current_report_search", "search")
    /\ (pc = "idle" /\ last'.op = "select_report") =>
           C10_Call("current_report_select", "select")

\* C10: search_report(name) is skipped, without any interaction or change,
\* exactly when name is the cached current_report_search, and select_report(title)
\* exactly when title is the cached current_report_select; otherwise the call is
\* performed and, when it succeeds, the cache holds its argument.
C10_SkipWhenCached == [][C10_Step]_vars

\* C10 witness: select_report(title) was skipped on a session that had
\* searched and selected that report before
C10_Witness ==
    /\ last.op = "select_report"
    /\ last.exc = "none"
    /\ log = << >>
    /\ experity.current_report_select = Some(last.args[1])
    /\ experity.current_report_search # Nothing

\* the popups that a run of the call opened
PopupsOfRun(l) == { l[i].arg[1] : i \in { k \in Events(l, "run") : l[k].arg[1] > 0 } }

\* C11: at most one popup is open at any time: a call that ran a report leaves
\* no popup open other than the one its own run opened, that is, run_report is
\* never triggered while the popup of an earlier run is still open.
C11_OnePopupAtATime ==
    /\ Cardinality(portal.popups) <= 1
    /\ PopupsOfRun(log) # {} => portal.popups \subseteq PopupsOfRun(log)

\* C11 witness: a pass of month_report's loop ran the report and got a second
\* popup while the popup of an earlier, failed pass was still open
C11_Witness ==
    /\ pc = "loop" /\ loop.op = "month_report"
    /\ last.op = "month_report_item"
    /\ PopupsOfRun(log) = {2}
    /\ 1 \in portal.popups

\* no playwright driver, browser or browser context is left open
Released == \A r \in DOMAIN portal.res : portal.res[r] # "open"

\* C12: when the lifecycle has ended, after close_browser() or with the
\* constructor's exception, every driver, browser and context that was
\* acquired has been released.
C12_ReleasedOnExit == pc \in {"done", "crashed"} => Released

\* C12, the part the code keeps: the resources are released on every exit
\* path on which no close or stop call of BrowserManager.close failed
C12_ReleasedUnlessCloseFails ==
    (pc \in {"done", "crashed"} /\ \A i \in Events(log, "manager_close") : log[i].arg[1])
        => Released

\* C12 witness: the lifecycle ended after close_browser() with the browser and
\* the driver still open
C12_Witness ==
    /\ pc = "done"
    /\ last.op = "close_browser"
    /\ portal.res.browser = "open"
    /\ portal.res.driver = "open"

\* C13: after BrowserManager.close() has returned, whatever the manager held,
\* no context, browser or driver that had been acquired is still open, even if
\* closing an earlier one of them failed.
C13_CloseReleasesAll == last.op = "manager_close" => Released

\* C13, the part the code keeps: close() always returns and clears the
\* manager, and a close() in which no call failed releases what the manager held
C13_CloseReleasesHeld ==
    [][(pc = "idle" /\ last'.op = "manager_close") =>
          /\ last'.exc = "none"
          /\ manager' = ManagerInit
          /\ log'[Len(log')].arg[1] =>
                /\ manager.context # None => portal'.res.context # "open"
                /\ manager.browser # None => portal'.res.browser # "open"
                /\ manager.playwright # None => portal'.res.driver # "open"]_vars

\* C13 witness: close() returned on a launched manager after context.close()
\* had failed, leaving the browser and the driver open
C13_Witness ==
    /\ last.op = "manager_close"
    /\ manager = ManagerInit
    /\ log = << [op |-> "manager_close", arg |-> <<FALSE>>] >>
    /\ portal.res = [driver |-> "open", browser |-> "open", context |-> "open"]

\* the events of user_login and _verify_login
AuthSteps == { "username", "password", "okta_password", "verify" }

\* user_login or _verify_login failed in the call that wrote log l: one of their
\* steps failed, or the native login page came back after the password
AuthFailed(l) ==
    \/ \E i \in 1..Len(l) : l[i].op \in AuthSteps /\ l[i].arg = <<FALSE>>
    \/ \E i \in Events(l, "raise") : l[i].arg = <<"Exception">>

\* C14: a failure of user_login or of _verify_login during login() propagates
\* to the driver and triggers the diagnostic capture: when login() has ended
\* after such a failure, the driver is in its except clause, about to call
\* collect_exception(), before logout() and close_browser().
C14_LoginFailurePropagates ==
    (last.op = "login" /\ AuthFailed(log)) => (last.exc # "none" /\ pc = "except")

\* C14, read over the whole run: once user_login or _verify_login has failed,
\* logout() is reached only from collect_exception()
C14_SnapshotBeforeLogout ==
    []((last.op = "login" /\ AuthFailed(log))
         => [](pc = "logout" => last.op = "collect_exception"))

\* C14 witness: login() returned normally after _verify_login had failed, and
\* the driver goes on to clinic_data()
C14_Witness ==
    /\ last.op = "login"
    /\ \E i \in Events(log, "verify") : log[i].arg = <<FALSE>>
    /\ last.exc = "none"
    /\ pc = "clinic_data"

\* the pages of the identity provider
OktaPages == { "okta", "okta-mfa" }

\* C15: user_login branches on the location reached after the username was
\* submitted. At the identity provider it submits the password and returns at
\* once, without _verify_login. In the native flow it raises when the login
\* page is still shown after the password, and it returns normally only after
\* _verify_login succeeded on the landing page.
C15_AuthenticateBranches ==
    last.op = "user_login" =>
        LET okta == Count(log, "okta_password") > 0
            native == Count(log, "password") > 0
        IN  /\ (\E i \in Events(log, "username") : log[i].arg = <<TRUE>>)
                  => (okta /\ ~native /\ portal.url \in OktaPages)
                     \/ (native /\ ~okta /\ portal.url \notin OktaPages)
            /\ okta =>
                  /\ Count(log, "verify") = 0
                  /\ last.exc = "none" <=> log[Len(log)] = [op |-> "okta_password", arg |-> <<TRUE>>]
            /\ (native /\ portal.url = "loginpage.aspx"
                       /\ \E i \in Events(log, "password") : log[i].arg = <<TRUE>>)
                  => last.exc = "Exception"
            /\ (native /\ last.exc = "none") =>
                  /\ log[Len(log)] = [op |-> "verify", arg |-> <<TRUE>>]
                  /\ portal.url = "LogBook.aspx"

\* C15 witness: user_login returned normally from the identity-provider branch
\* although the password had not been accepted there
C15_Witness ==
    /\ last.op = "user_login"
    /\ last.exc = "none"
    /\ portal.url = "okta"
    /\ ~portal.authenticated
    /\ Count(log, "okta_password") = 1

\* C16: within login(), the one-time code is generated and enter_otp is called
\* only after open_portal and user_login returned without an error, and only
\* when the credentials hold an OTP secret; enter_otp ends with _verify_login,
\* and no error is raised after the code was typed only if the location is
\* base_url + "LogBook.aspx".
C16_OtpAfterLogin ==
    last.op = "login" =>
        LET c == last.args[1]
            otp == Events(log, "generate_otp") \cup Events(log, "otp")
        IN  /\ \A i \in otp :
                  /\ c.auth_passphrase # Nothing /\ Truthy(c.auth_passphrase[1])
                  /\ \A j \in Events(log, "raise") : j > i
                  /\ \E j \in Events(log, "goto") : j < i
                  /\ \E j \in Events(log, "username") : j < i /\ log[j].arg = <<TRUE>>
            /\ \A i \in Events(log, "otp") :
                  log[i].arg = <<TRUE>> => i < Len(log) /\ log[i + 1].op = "verify"
            /\ (Count(log, "otp") > 0 /\ Count(log, "raise") = 0) =>
                  /\ log[Len(log)] = [op |-> "verify", arg |-> <<TRUE>>]
                  /\ experity.base_url # None
                  /\ portal.url = "LogBook.aspx"

\* C16 witness: login() with an OTP secret went through open_portal, the
\* identity provider's password page and the one-time code, and was verified
C16_Witness ==
    /\ last.op = "login"
    /\ last.args[1].auth_passphrase = Some(<<"K", "E", "Y">>)
    /\ Count(log, "okta_password") = 1
    /\ Count(log, "generate_otp") = 1
    /\ log[Len(log)] = [op |-> "verify", arg |-> <<TRUE>>]
    /\ portal.authenticated

\* C17: in every login(), enter_otp is called only when user_login took the
\* identity-provider branch, never after the native flow verified the session.
C17_OtpOnlyAfterMfaBranch ==
    last.op = "login" =>
        \A i \in Events(log, "otp") :
            /\ \E j \in Events(log, "okta_password") : j < i
            /\ \A j \in Events(log, "verify") : j > i

\* C17 witness: the native flow verified the session, and login() went on to
\* generate a code and call enter_otp, which failed on the landing page
C17_Witness ==
    /\ last.op = "login"
    /\ Count(log, "password") = 1
    /\ \E i \in Events(log, "verify"), j \in Events(log, "otp") :
          i < j /\ log[i].arg = <<TRUE>> /\ log[j].arg = <<FALSE>>
    /\ portal.url = "LogBook.aspx"
    /\ portal.authenticated

\* C18: user_logout tolerates an absent logout control: when the control is
\* not there (already logged out, or never logged in), user_logout takes the
\* session as logged out and returns without raising.
C18_LogoutAbsentControl ==
    (last.op = "user_logout" /\ log[1] = [op |-> "logout", arg |-> <<FALSE>>])
        => last.exc = "none"

\* C18 witness: user_logout was called on the login page of a session that
\* was never logged in, found no logout control, and raised
C18_Witness ==
    /\ last.op = "user_logout"
    /\ last.exc = "TimeoutError"
    /\ portal.url = "loginpage.aspx"
    /\ ~portal.authenticated
    /\ log[1] = [op |-> "logout", arg |-> <<FALSE>>]

\* C19: navigate_page with a page name it does not know raises ValueError
\* before anything is sent to the portal: no goto and no wait is issued, and
\* current_page and the frame handles stay as they were.
C19_UnknownPageRejected ==
    [][(pc = "idle" /\ last'.op = "navigate_page" /\ last'.args[1] \notin DOMAIN pages) =>
          /\ last'.exc = "ValueError"
          /\ log' = << [op |-> "raise", arg |-> <<"ValueError">>] >>
          /\ experity' = experity
          /\ portal' = portal]_vars

\* C19 witness: navigate_page("admin") raised ValueError on a session that
\* had the report page and its frames cached
C19_Witness ==
    /\ last.op = "navigate_page"
    /\ last.args = <<"admin">>
    /\ last.exc = "ValueError"
    /\ experity.current_page = "Reports.aspx"
    /\ experity.main_frame # None
    /\ portal.url = "Reports.aspx"

\* C20: when navigate_page("report") has loaded the page and resolves the
\* frames, it raises ValueError exactly when the document has no
\* reportMainWindow frame; a missing NavFrame or PVRC_MainStage frame is
\* tolerated: the call returns normally and leaves that handle None.
C20_FrameResolution ==
    (/\ last.op = "navigate_page" /\ last.args = <<"report">>
     /\ Count(log, "goto") = 1
     /\ last.exc \notin {"Error", "TimeoutError"})
    =>  /\ last.exc \in {"none", "ValueError"}
        /\ last.exc = "ValueError" <=> experity.main_frame = None
        /\ last.exc = "ValueError" <=> "main" \notin portal.attached
        /\ last.exc = "none" =>
              /\ experity.nav_frame = None <=> "nav" \notin portal.attached
              /\ experity.report_frame = None <=> "report" \notin portal.attached

\* C20 witness: navigate_page("report") returned normally on a document that
\* has the main frame but neither the navigation nor the content frame
C20_Witness ==
    /\ last.op = "navigate_page" /\ last.args = <<"report">>
    /\ last.exc = "none"
    /\ Count(log, "goto") = 1
    /\ experity.main_frame # None
    /\ experity.nav_frame = None
    /\ experity.report_frame = None
    /\ portal.attached = {"main"}

\* the code that the provider generates k intervals away from the clock
CodeAt(k) == generate_otp(totp[1], Some(clock + k * totp[1].interval), clock).val

\* C21 as stated: for every config and time t, verify(code, window=1) accepts
\* the codes generated at t - interval, t and t + interval, and rejects the
\* codes generated at t - 2*interval and t + 2*interval.
C21_WindowOneRejectsTwoSteps ==
    (last.op = "verify" /\ last.args[2] = 1 /\ last.exc = "none") =>
        /\ last.args[1] \in { CodeAt(k) : k \in -1 .. 1 } => ret = Some(TRUE)
        /\ last.args[1] \in { CodeAt(-2), CodeAt(2) } => ret = Some(FALSE)

\* C21: for every config and time t, verify(code, window=1) accepts the codes
\* generated at t - interval, t and t + interval, and rejects a code generated
\* at t - 2*interval or t + 2*interval unless it is equal to one of those three.
C21_WindowOne ==
    (last.op = "verify" /\ last.args[2] = 1 /\ last.exc = "none") =>
        LET inside == { CodeAt(k) : k \in -1 .. 1 }
        IN  /\ last.args[1] \in inside => ret = Some(TRUE)
            /\ (last.args[1] \in { CodeAt(-2), CodeAt(2) } /\ last.args[1] \notin inside)
                  => ret = Some(FALSE)

\* C21 witness: the code of two steps ahead is the code of one step ahead
\* (010312), and verify with window 1 accepted it
C21_Witness ==
    /\ last.op = "verify" /\ last.args[2] = 1
    /\ totp = Some(TOTPProvider("JBSWY3DPEHPK3PXP", 30, 6, "SHA1"))
    /\ clock = ClockStart
    /\ last.args[1] = <<"0", "1", "0", "3", "1", "2">>
    /\ last.args[1] = CodeAt(2)
    /\ CodeAt(0) = <<"7", "9", "6", "9", "6", "9">>
    /\ ret = Some(TRUE)

\* C22: for every window >= 0, verify(code, window) returns True if and only
\* if code is the code generated at now + k*interval for some k with
\* -window <= k <= window, and False otherwise.
C22_VerifyIffInWindow ==
    (last.op = "verify" /\ last.exc = "none") =>
        LET window == last.args[2]
        IN  /\ ret \in { Some(TRUE), Some(FALSE) }
            /\ ret = Some(TRUE) <=> last.args[1] \in { CodeAt(k) : k \in -window .. window }

\* C22 witness: verify with window 2 accepted the code of two steps back,
\* which is the code of no nearer step
C22_Witness ==
    /\ last.op = "verify" /\ last.args[2] = 2
    /\ last.args[1] = CodeAt(-2)
    /\ last.args[1] \notin { CodeAt(k) : k \in -1 .. 1 }
    /\ ret = Some(TRUE)

\* the seconds of the time bucket of timestamp t
Bucket(self, t) ==
    { u \in (t - self.interval) .. (t + self.interval) :
        u \div self.interval = t \div self.interval }

\* C23: for a fixed config, generate_otp gives the same outcome for any two
\* timestamps of the same time bucket (floor(t / interval)), whatever the
\* clock shows: the outcome depends on the config and the bucket only.
C23_SameBucketSameCode ==
    last.op = "generate_otp" =>
        LET self == totp[1]
            t1 == IF last.args[1] = Nothing THEN clock ELSE last.args[1][1]
            outcome == IF last.exc = "none" THEN Returned(ret[1]) ELSE Raised(last.exc)
        IN  \A t2 \in Bucket(self, t1), now \in ClockValues :
                generate_otp(self, Some(t2), now) = outcome

\* C23 witness: generate_otp() at the last second of a 30-second step returned
\* the code of the step's first second
C23_Witness ==
    /\ last.op = "generate_otp" /\ last.args = << Nothing >>
    /\ totp # Nothing /\ totp[1].interval = 30
    /\ clock = ClockStart + 29
    /\ last.exc = "none"
    /\ ret = Some(generate_otp(totp[1], Some(ClockStart), ClockStart).val)
    /\ Cardinality(Bucket(totp[1], clock)) = 30

\* the hash algorithms of TOTPProvider
Supported == { "SHA1", "SHA256", "SHA512" }

\* C24: an algorithm other than SHA1, SHA256 and SHA512 is rejected when the
\* provider is constructed: the constructor raises, and no provider with an
\* unsupported algorithm exists.
C24_AlgorithmCheckedAtConstruction ==
    /\ (last.op = "TOTPProvider" /\ upper(last.args[4]) \notin Supported)
          => last.exc # "none"
    /\ totp # Nothing => totp[1].algorithm \in Supported

\* C24 witness: a provider constructed with "MD5" exists, and the algorithm
\* was rejected only by a later generate_otp
C24_Witness ==
    /\ totp # Nothing /\ totp[1].algorithm = "MD5"
    /\ totp[1].secret \in Base32Secrets
    /\ last.op = "generate_otp"
    /\ last.exc = "ValueError"

\* the characters of a str
Chars(s) == { s[i] : i \in 1..Len(s) }

\* C25: date_range_report(code, title, from, to) saves its downloads under the
\* stem code + "_" + from + "_" + to with every space and every slash replaced
\* by an underscore; ("PAY 28", "05/01/2022", "02/24/2026") gives
\* PAY_28_05_01_2022_02_24_2026; each download is saved as stem + "." + format.
C25_DateRangeStem ==
    last.op = "date_range_report" =>
        LET raw == last.args[1] \o <<"_">> \o last.args[2] \o <<"_">> \o last.args[3]
        IN  \A k \in Events(log, "save") :
              LET stem == log[k].arg[1] IN
              /\ Len(stem) = Len(raw)
              /\ \A i \in 1..Len(raw) :
                    stem[i] = IF raw[i] \in {" ", "/"} THEN "_" ELSE raw[i]
              /\ Chars(stem) \cap {" ", "/"} = {}
              /\ last.args[1] = PAY_28 =>
                    stem = <<"P","A","Y","_","2","8","_","0","5","_","0","1","_",
                             "2","0","2","2","_","0","2","_","2","4","_","2","0","2","6">>
              /\ log[k].arg[4] = stem \o <<".">> \o FormatText(log[k].arg[2])

\* C25 witness: date_range_report("PAY 28", ..., "05/01/2022", "02/24/2026")
\* saved its csv and its xlsx download
C25_Witness ==
    /\ last.op = "date_range_report"
    /\ last.args = <<PAY_28, FROM_DATE, TO_DATE>>
    /\ { log[k].arg[2] : k \in Events(log, "save") } = {"csv", "xlsx"}
    /\ \E k \in Events(log, "save") :
          log[k].arg[4] = <<"P","A","Y","_","2","8","_","0","5","_","0","1","_",
                            "2","0","2","2","_","0","2","_","2","4","_","2","0","2","6",
                            ".","x","l","s","x">>

\* C26: get_months_between does not depend on the order of its two dates:
\* get_months_between(a, b) = get_months_between(b, a).
C26_OrderIndependent ==
    last.op = "get_months_between" =>
        ret = Some(get_months_between(last.args[2], last.args[1]))

\* C26 witness: the call was made with the later date first and returned
\* more than one month
C26_Witness ==
    /\ last.op = "get_months_between"
    /\ ~DateLeq(strptime(last.args[1]), strptime(last.args[2]))
    /\ Len(ret[1]) > 12

\* the month number idx (year * 12 + month - 1) as a label
LabelOfIndex(idx) == MonthLabel(idx \div 12, (idx % 12) + 1)

\* C27: for all dates a and b, whatever their days, get_months_between
\* returns the months from the month of the earlier date to the month of the
\* later date, both included, in ascending consecutive order, without gaps or
\* duplicates: 12*(y2-y1) + (m2-m1) + 1 labels, also across year ends.
C27_ConsecutiveMonths ==
    last.op = "get_months_between" =>
        LET a == strptime(last.args[1])
            b == strptime(last.args[2])
            ia == a[1] * 12 + a[2] - 1
            ib == b[1] * 12 + b[2] - 1
            lo == IF ia <= ib THEN ia ELSE ib
            hi == IF ia <= ib THEN ib ELSE ia
            result == ret[1]
        IN  /\ last.exc = "none"
            /\ Len(result) = hi - lo + 1
            /\ \A i \in 1..Len(result) : result[i] = LabelOfIndex(lo + i - 1)
            /\ \A i, j \in 1..Len(result) : i # j => result[i] # result[j]

\* C27 witness: from the last day of December to the first day of a February
\* two years later: 27 months, ending with that February
C27_Witness ==
    /\ last.op = "get_months_between"
    /\ last.args = << DateText(YearFrom, 12, 31), DateText(YearTo, 2, 1) >>
    /\ Len(ret[1]) = 12 * (YearTo - YearFrom) - 9
    /\ ret[1][1] = MonthLabel(YearFrom, 12)
    /\ ret[1][2] = MonthLabel(YearFrom + 1, 1)
    /\ ret[1][Len(ret[1])] = MonthLabel(YearTo, 2)

\* C28: collect_exception_artifacts with no open page returns normally: it
\* logs a warning, raises nothing and takes no screenshot.
C28_NoPagesWarning ==
    (last.op = "collect_exception_artifacts" /\ portal.url = "closed") =>
        /\ last.exc = "none"
        /\ log = << [op |-> "warning", arg |-> <<"No pages">>] >>

\* C28 witness: the collector was called after the browser had been closed,
\* with screenshot failures planned for both indices, and logged the warning
C28_Witness ==
    /\ last.op = "collect_exception_artifacts"
    /\ last.args = << {0, 1} >>
    /\ portal.url = "closed"
    /\ portal.popups = {}
    /\ Count(log, "warning") = 1

\* C29: over n open pages collect_exception_artifacts attempts a screenshot
\* of every index 0..n-1, in order; a screenshot that fails is logged and does
\* not keep the later pages from being attempted, and the collector returns
\* normally.
C29_EveryPageAttempted ==
    (last.op = "collect_exception_artifacts" /\ portal.url # "closed") =>
        LET n == 1 + Cardinality(portal.popups)
        IN  /\ last.exc = "none"
            /\ Len(log) = n
            /\ \A i \in 1..n :
                  /\ log[i].op = "screenshot"
                  /\ log[i].arg[1] = i - 1
                  /\ log[i].arg[2] = (experity.screenshot_dir # None /\ (i - 1) \notin last.args[1])

\* C29 witness: with the primary page and a popup open, the screenshot of the
\* primary page failed and the screenshot of the popup was taken
C29_Witness ==
    /\ last.op = "collect_exception_artifacts"
    /\ Cardinality(portal.popups) = 1
    /\ log = << [op |-> "screenshot", arg |-> <<0, FALSE>>],
                [op |-> "screenshot", arg |-> <<1, TRUE>>] >>

\* a thread between taking the thread lock and giving it back
InAccess(t) ==
    db.thread[t].at \in {"open", "flock", "connect", "inside", "commit", "unlock", "release"}

\* a thread that holds the connection it was given
HoldsConnection(t) ==
    db.thread[t].at \in {"inside", "commit", "unlock"} /\ db.thread[t].conn = "open"

\* C30: whatever the threads call (access, execute, executemany, transaction),
\* at most one of them is between lock acquisition and release, a thread that
\* holds the connection holds both locks, and a thread that has left the block,
\* by a return, an exception of the body or a failure to open, lock or connect,
\* holds neither lock.
C30_SingleAccess ==
    /\ Cardinality({t \in Threads : InAccess(t)}) <= 1
    /\ \A t \in Threads :
         /\ InAccess(t) <=> db.thread_lock = t
         /\ HoldsConnection(t) => db.file_lock = t
         /\ ~InAccess(t) => db.file_lock # t
    /\ (\A t \in Threads : ~InAccess(t)) => db.thread_lock = Free

\* one thread left the block because connect failed, and another one is
\* inside the block with the connection while the first is still outside
C30_Witness ==
    \E t, u \in Threads :
        /\ db.thread[t].at = "raised"
        /\ db.thread[t].exc = "OperationalError"
        /\ db.thread[t].conn = "none"
        /\ HoldsConnection(u)
        /\ db.thread[u].at = "inside"

\* a thread whose block has ended and whose connection is closed, before the
\* next caller gets the lock
BlockEnded(t) == db.thread[t].at = "release" /\ db.thread[t].conn = "closed"

\* C31: the work of a block is committed exactly when the block ends without
\* an exception; when it raises, none of its work is visible afterwards.
C31_Atomic ==
    \A t \in Threads :
        BlockEnded(t) =>
            IF db.thread[t].exc = "none"
            THEN db.committed = db.before \cup db.work
            ELSE db.committed = db.before

\* a block that created a table and then raised left the table behind
C31_Witness ==
    \E t \in Threads :
        /\ BlockEnded(t)
        /\ db.thread[t].exc = "Error"
        /\ "table" \in db.work
        /\ "table" \in db.committed \ db.before

\* C32: every export click comes straight after a wait on the same popup that
\* found the report loaded, and every file is saved straight after the export
\* click on its popup; a wait that did not find the report loaded raises (the
\* report error when the error region is visible), and neither an export
\* click nor a file follows on that popup.
C32_DownloadNeedsLoaded ==
    \A j \in 1..Len(log) :
        /\ log[j].op = "export" =>
               /\ j > 1
               /\ log[j - 1].op = "await_ready"
               /\ log[j - 1].arg = <<log[j].arg[1], "loaded">>
        /\ log[j].op = "save" =>
               /\ j > 1
               /\ log[j - 1].op = "export"
               /\ log[j - 1].arg = <<log[j].arg[3].id, log[j].arg[2], TRUE>>
        /\ (log[j].op = "await_ready" /\ log[j].arg[2] # "loaded") =>
               /\ j < Len(log)
               /\ log[j + 1].op = "raise"
               /\ log[j].arg[2] = "error" => log[j + 1].arg = <<"ReportError">>
               /\ \A k \in (j + 1)..Len(log) :
                      /\ log[k].op = "export" => log[k].arg[1] # log[j].arg[1]
                      /\ log[k].op = "save" => log[k].arg[3].id # log[j].arg[1]

\* C32 witness: the csv file of a run was saved, then the wait before the
\* xlsx download found the error region and the call raised the report error
C32_Witness ==
    \E i, j \in 1..Len(log) :
        /\ i < j
        /\ log[i].op = "save" /\ log[i].arg[2] = "csv"
        /\ log[j].op = "await_ready" /\ log[j].arg = <<log[i].arg[3].id, "error">>
        /\ Count(log, "save") = 1
        /\ last.exc = "ReportError"

\* a navigate_page that returned without doing anything
NavigateNoOp == last.op = "navigate_page" /\ last.exc = "none" /\ log = << >>

\* C33: whenever navigate_page(target) returns as a no-op, the browser is on
\* the target page and, for the report page, the main frame handle is
\* resolved in the current document.
C33_NoOpOnTarget ==
    NavigateNoOp =>
        /\ portal.url = pages[last.args[1]]
        /\ last.args[1] = "report" =>
               experity.main_frame # None /\ "main" \in portal.attached

\* C33 witness: on the report page of an authenticated session whose frame
\* lookup failed, navigate_page("report") returned as a no-op with no main
\* frame handle
C33_Witness ==
    /\ NavigateNoOp
    /\ last.args = <<"report">>
    /\ portal.authenticated
    /\ portal.url = "Reports.aspx"
    /\ experity.main_frame = None

\* a search_report that returned without doing anything
SearchNoOp == last.op = "search_report" /\ last.exc = "none" /\ log = << >>

\* C34: search_report(name) is skipped only if the report page, as it is
\* loaded now, shows the search for name.
C34_SkipOnlyIfSearched ==
    SearchNoOp => portal.searched = Some(last.args[1])

\* C34 witness: the report page was loaded again and its frames resolved, it
\* shows no search, and search_report was skipped
C34_Witness ==
    /\ SearchNoOp
    /\ portal.url = "Reports.aspx"
    /\ FrameUsable(World, "nav_frame", "nav")
    /\ portal.searched = Nothing

\* a select_report that returned without doing anything
SelectNoOp == last.op = "select_report" /\ last.exc = "none" /\ log = << >>

\* C35: select_report(title) is skipped only if the report that the report
\* page has open now is title.
C35_SkipOnlyIfSelected ==
    SelectNoOp => portal.selected = Some(last.args[1])

\* C35 witness: another report was searched after title was selected, the
\* page has no report open, and select_report(title) was skipped
C35_Witness ==
    /\ SelectNoOp
    /\ portal.url = "Reports.aspx"
    /\ FrameUsable(World, "report_frame", "report")
    /\ portal.searched # Nothing
    /\ TitleOf(portal.searched[1]) # last.args[1]
    /\ portal.selected = Nothing

\* the parameters the report form holds after the configuration step e succeeded
Configured(e) == Some(<<e.arg[1]>> \o e.arg[2])

\* C36: a run is triggered only after the parameter configuration of the
\* same request succeeded, and every file saved comes from a run made with
\* the parameters of that request.
C36_RunAfterConfigured ==
    /\ \A j \in Events(log, "run") :
           \E i \in Events(log, "config") : i < j /\ log[i].arg[3] = TRUE
    /\ \A k \in Events(log, "save") :
           \E i \in Events(log, "config") :
               i < k /\ log[k].arg[3].params = Configured(log[i])

\* C36 witness: in month_report, the pass for the label "BAD" failed to select
\* the month, ran the report all the same and saved under the stem of "BAD"
\* a file made with the month of the pass before
C36_Witness ==
    /\ last.op = "month_report_item"
    /\ \E i \in Events(log, "config"), k \in Events(log, "save") :
           /\ i < k
           /\ log[i].arg = <<"month", <<BAD>>, FALSE>>
           /\ log[k].arg[1] = MonthStem(loop.report_name, BAD)
           /\ log[k].arg[3].params # Nothing
           /\ log[k].arg[3].params[1][1] = "month"
           /\ log[k].arg[3].params[1][2] # BAD

\* the facade calls that collect data or make reports
PortalWork ==
    { "clinic_data", "report_data", "month_range_report", "month_report",
      "month_report_item", "date_range_report" }

\* the call sent something to the portal: a navigation, a search, a
\* selection, a run or an export click
Attempted(l) ==
    \E i \in 1..Len(l) : l[i].op \in {"goto", "search", "select", "run", "export"}

\* C37: in the driver, a data or report call sends something to the portal
\* only in a session whose login succeeded.
C37_WorkOnlyAfterLogin ==
    (last.op \in PortalWork /\ Attempted(log)) => portal.authenticated

\* C37 witness: the login did not get the session authenticated, and
\* clinic_data navigated all the same
C37_Witness ==
    /\ last.op = "clinic_data"
    /\ ~portal.authenticated
    /\ \E i \in 1..Len(log) : log[i].op = "goto"

\* C38: whenever no step of the login sequence raised, the session was
\* verified to be at the landing page.
C38_LoginVerified ==
    (last.op = "login" /\ Count(log, "raise") = 0) =>
        /\ \E i \in Events(log, "verify") : log[i].arg = <<TRUE>>
        /\ portal.url = "LogBook.aspx"

\* C38 witness: the login went through the identity provider with no OTP
\* secret configured; no step raised and nothing verified the session
C38_Witness ==
    /\ last.op = "login"
    /\ Count(log, "raise") = 0
    /\ Count(log, "okta_password") = 1
    /\ Count(log, "generate_otp") = 0
    /\ Count(log, "verify") = 0
    /\ portal.url = "okta-mfa"

\* C39: a search_report or select_report that raises leaves the session
\* state as it was, and its argument is not the cached one afterwards, so the
\* same call made again is not skipped.
C39_Step ==
    /\ (last'.op = "search_report" /\ last'.exc # "none") =>
           /\ experity' = experity
           /\ ~SearchSkip([experity |-> experity'], last'.args[1])
    /\ (last'.op = "select_report" /\ last'.exc # "none") =>
           /\ experity' = experity
           /\ ~SelectSkip([experity |-> experity'], last'.args[1])

C39_FailureKeepsCache == [][C39_Step]_vars

\* C39 witness: a search for one report is cached, and the search for
\* another one reached the search box and raised
C39_Witness ==
    /\ last.op = "search_report"
    /\ last.exc = "Error"
    /\ \E i \in Events(log, "search") : log[i].arg = <<last.args[1], FALSE>>
    /\ experity.current_report_search # Nothing
    /\ experity.current_report_search # Some(last.args[1])

\* the labels that get_months_between(FROM_DATE, TO_DATE) produced
MonthsOfDriver == { months[k] : k \in 1..Len(months) }

\* C40: in the driver, every pass of a month_report loop is made for a
\* complete month label of the enumeration, and a call given one month makes
\* one pass.
C40_CyclesForMonthLabels ==
    /\ last.op = "month_report_item" => last.args[2] \in MonthsOfDriver
    /\ (pc = "loop" /\ loop.report_name = PHY_10) => Len(loop.items) = 1

\* C40 witness: a pass of the PHY 10 call was made for a label of one
\* character, which the form does not offer
C40_Witness ==
    /\ last.op = "month_report_item"
    /\ last.args[1] = PHY_10
    /\ Len(last.args[2]) = 1
    /\ \E i \in Events(log, "config") : log[i].arg = <<"month", <<last.args[2]>>, FALSE>>
    /\ Len(loop.items) = Len(FromEnd(months, 2))

====
